---- MODULE Spec2Model ----
(***************************************************************************)
(* Spend admission and kill switch of the agent cost tracker.              *)
(*                                                                         *)
(* POST /api/usage/record runs the enforceAgentBudget middleware and then  *)
(* the route handler; every database statement and every Redis call of a   *)
(* handler is one step, so concurrent handlers interleave between their    *)
(* awaits.  The kill-switch routes (emergency stop, kill, pause, revive),  *)
(* the budget routes (budget, suspend, reactivate) and the clock are the   *)
(* other processes.  Amounts are whole cost units; the clock counts        *)
(* minutes and stays inside one calendar month, so the spend cache is one  *)
(* hash; event_timestamp comes from the request body and may name a minute *)
(* of another month.                                                       *)
(***************************************************************************)
EXTENDS Integers, Sequences, FiniteSets, Bags, TLC

\* ---------------------------------------------------------------- bounds
GateCalls == 2          \* calls served in one behaviour of SpecGate
StopCalls == 3          \* calls served in one behaviour of SpecStop
RaceCalls == 2          \* calls served in one behaviour of SpecRace
LifeCalls == 3          \* calls served in one behaviour of SpecLife
PairCalls == 2          \* calls served in one behaviour of SpecPair
DriftCalls == 3         \* calls served in one behaviour of SpecDrift
ProbeCalls == 2         \* calls served in one behaviour of SpecProbe
RuleCalls == 1          \* calls served in one behaviour of SpecRule
ErrorCalls == 1         \* calls served in one behaviour of SpecError
TickCalls == 1          \* calls served in one behaviour of SpecTick
PathCalls == 2          \* calls served in one behaviour of SpecPaths
HaltCalls == 2          \* calls served in one behaviour of SpecHalt
HealCalls == 2          \* calls served in one behaviour of SpecHeal
LoopCalls == 1          \* calls served in one behaviour of SpecLoop
MaxTime   == 1          \* last clock value
MaxSamples == 1         \* equal rows of spend_rate_monitoring that are told apart

LoopThreshold == 50     \* HAVING COUNT(*) >= 50
LoopWindow == 10        \* INTERVAL '10 minutes'
ErrorWindow == 15       \* INTERVAL '15 minutes'
MinSample == 10         \* HAVING COUNT(*) >= 10
RateWindow == 5         \* windowStart = Date.now() - 5 * 60 * 1000
MinutesPerDay == 1440   \* CURRENT_DATE: the clock counts minutes
DaysPerMonth == 31      \* DATE_TRUNC('month', ...): the month of minute 0 has 31 days
MonthDay == 14          \* whole days of that month that lie before minute 0
NULL     == -1
Tenants  == {"u1", "u2"}
AgentIds == {"a1"}
Reasons  == {"ra", "rb"}
Costs    == {1, 2}      \* cost_amount and monthly_cost_limit values
ReqSlots == {1, 2}       \* POST /record handlers that can be in flight at once
OpSlots  == {1, 2}
TickSlots == {1, 2}     \* runs of the monitor that can be in flight at once       \* kill-switch handlers that can be in flight at once
AgentKey == Tenants \X AgentIds
CustomerIds == {"c1"}
CustomerNames == {"c1", "c2"}    \* customer ids a kill-customer call names

VARIABLES
  agents,      \* table agents, keyed by (user_id, agent_id)
  globalStop,  \* the single row of global_kill_switch
  audit,       \* table kill_switch_events
  ledger,      \* table usage_events
  customers,   \* table customers, keyed by (user_id, customer_id)
  cache,       \* Redis hash agent_spend_<month>: agent_id -> total
  req,         \* POST /record handlers in flight
  op,          \* kill-switch handlers in flight
  resp,        \* the last response sent by POST /record
  opResp,      \* the last response sent by a kill-switch or budget route
  now,         \* clock
  redisUp,     \* whether a Redis command succeeds
  mon,         \* runs of KillSwitchMonitor.performMonitoringChecks in flight
  triggers,    \* table kill_switch_triggers
  isRunning,   \* KillSwitchMonitor.isRunning: the interval timer is armed
  monitoring,  \* table spend_rate_monitoring: how many rows there are of each content
  callsLeft    \* calls still to arrive

vars == <<agents, globalStop, audit, ledger, customers, cache, req, op, resp, opResp,
          now, redisUp, mon, triggers, isRunning, monitoring, callsLeft>>

\* ------------------------------------------------------------ data model
\* killed_by and stopped_by, which no statement reads, are left out
NoRow == [present |-> FALSE, status |-> "NULL", kill_reason |-> "NULL",
          killed_at |-> NULL, pause_until |-> NULL,
          monthly_cost_limit |-> NULL, is_suspended |-> FALSE]

\* INSERT INTO agents (user_id, agent_id, agent_name): column defaults
NewAgentRow == [present |-> TRUE, status |-> "active", kill_reason |-> "NULL",
                killed_at |-> NULL, pause_until |-> NULL,
                monthly_cost_limit |-> NULL, is_suspended |-> FALSE]

GlobalStopOff == [is_emergency_stopped |-> FALSE, stopped_at |-> NULL,
                  stop_reason |-> "NULL"]

ReqIdle == [pc |-> "idle", id |-> 0, route |-> "record", events |-> 0,
            user |-> "NULL", agent_id |-> "NULL", cost |-> 0,
            valid |-> FALSE, deferred |-> FALSE, limit |-> NULL,
            currentSpend |-> NULL, global_stopped |-> "unset", code |-> "none",
            event_timestamp |-> NULL, started |-> NULL]

OpIdle == [pc |-> "idle", id |-> 0, kind |-> "NULL", user |-> "NULL", target |-> "NULL",
           reason |-> "NULL", confirm |-> FALSE, code |-> "none", is_active |-> FALSE,
           pauseUntil |-> NULL, started |-> NULL]

\* a usage_events row as POST /record writes it: the requests of the model all
\* name customer c1, event e1 and model m1 and carry metadata.request_hash h1 and no
\* metadata.error;
\* created_at DEFAULT CURRENT_TIMESTAMP; event_timestamp is the minute the
\* request was validated unless the body names another
UsageEvent(u, k, cost, at) ==
  [user |-> u, customer |-> "c1", agent |-> k, cost |-> cost, event_name |-> "e1",
   model |-> "m1", request_hash |-> "h1", error |-> FALSE, created_at |-> at,
   event_timestamp |-> at]

\* DATE_TRUNC('month', ts): the number of the month that minute ts lies in
MonthOf(ts) == (ts + MonthDay * MinutesPerDay) \div (DaysPerMonth * MinutesPerDay)

\* event_timestamp of a request body: absent, or an ISO date of the month
\* before
LastMonth == 0 - DaysPerMonth * MinutesPerDay
EventStamps == {NULL, LastMonth}

RECURSIVE SumCost(_, _)
SumCost(events, k) ==
  IF events = << >> THEN 0
  ELSE (IF /\ Head(events).agent = k
           /\ MonthOf(Head(events).event_timestamp) = MonthOf(now)
        THEN Head(events).cost ELSE 0)
       + SumCost(Tail(events), k)

\* SELECT COALESCE(SUM(cost_amount), 0) FROM usage_events WHERE agent_id = $1
\* AND DATE_TRUNC('month', event_timestamp) = DATE_TRUNC('month', CURRENT_DATE)
LedgerSum(k) == SumCost(ledger, k)

\* getAgentSpend: parseFloat(hGet(...)) || 0, and 0 when Redis throws
getAgentSpend(a, ok) == IF ok /\ cache[a] # NULL THEN cache[a] ELSE 0

\* incrementAgentSpend: hIncrByFloat, nothing when Redis throws
incrementAgentSpend(a, amount, ok) ==
  IF ok THEN [cache EXCEPT ![a] = (IF @ = NULL THEN 0 ELSE @) + amount]
  ELSE cache

\* resetAgentSpend: hDel(key, agentId), nothing when Redis throws
resetAgentSpend(a) ==
  /\ cache[a] # NULL
  /\ cache' = IF redisUp THEN [cache EXCEPT ![a] = NULL] ELSE cache
  /\ UNCHANGED <<agents, globalStop, audit, ledger, customers, req, op, resp, opResp, now,
                 redisUp, mon, callsLeft, triggers, isRunning, monitoring>>

Key(rec) == <<rec.user, rec.agent_id>>

\* the trigger and the violation handed to triggerAutoKill: the agent, the
\* group of events the row stands for, and trigger_name, trigger_type and
\* threshold_value as the reason prints them
KillRow(k, group, name, ttype, threshold) ==
  [k |-> k, group |-> group, name |-> name, ttype |-> ttype, threshold |-> threshold]

NoKillRow == KillRow(<<"NULL", "NULL">>, << >>, "NULL", "NULL", "NULL")

\* checkSpendRates or checkErrorRates in a run: where it stands, the triggers
\* and the rows still to be handled, the row triggerAutoKill is working on
CheckIdle == [pc |-> "idle", trigs |-> {}, rows |-> {}, row |-> NoKillRow]

\* updateSpendRateMonitoring in a run: where it stands and the windowEnd it
\* took from the clock when it was called
RatesIdle == [pc |-> "idle", windowEnd |-> NULL]

\* a run of the monitor: where checkInfiniteLoops stands, the rows its query
\* returned that are still to be handled, the row triggerAutoKill is working
\* on, the other members of Promise.all, those that have not returned, and
\* the catch blocks that have run
MonIdle == [pc |-> "idle", rows |-> {}, row |-> NoKillRow, due |-> {}, failed |-> {},
            spend |-> CheckIdle, error |-> CheckIdle, rates |-> RatesIdle]

Free(slots, f) == {s \in slots : f[s].pc = "idle"}
LowestFree(slots, f, s) == s \in Free(slots, f) /\ \A t \in Free(slots, f) : s <= t

\* ------------------------------------------------------------------ Init
\* The empty store: schema.sql and the kill-switch schema have just run.
Fresh ==
  /\ agents = [k \in AgentKey |-> NoRow]
  /\ globalStop = GlobalStopOff
  /\ audit = << >>
  /\ ledger = << >>
  /\ customers = {}
  /\ cache = [a \in AgentIds |-> NULL]
  /\ req = [r \in ReqSlots |-> ReqIdle]
  /\ op = [o \in OpSlots |-> OpIdle]
  /\ resp = ReqIdle
  /\ opResp = OpIdle
  /\ now = 0
  /\ mon = [t \in TickSlots |-> MonIdle]
  /\ triggers = {}
  /\ isRunning = TRUE
  /\ monitoring = EmptyBag
  /\ redisUp = TRUE

Init ==
  /\ Fresh
  /\ callsLeft = StopCalls

\* A store left by earlier traffic: agent a1 of u1 exists with the given
\* monthly limit and one recorded event of cost `spend` (none when 0), which
\* the cache has counted; agent a1 of u2 exists or not, without limit or spend.
\* Each tenant with an agent has its customer c1.
Seeded(limit, spend, other) ==
  /\ agents = [k \in AgentKey |->
       IF k = <<"u1", "a1">> THEN [NewAgentRow EXCEPT !.monthly_cost_limit = limit]
       ELSE IF other THEN NewAgentRow ELSE NoRow]
  /\ globalStop = GlobalStopOff
  /\ audit = << >>
  /\ ledger = IF spend = 0 THEN << >>
              ELSE << UsageEvent("u1", <<"u1", "a1">>, spend, 0) >>
  /\ customers = {<<"u1", "c1">>} \cup (IF other THEN {<<"u2", "c1">>} ELSE {})
  /\ cache = [a \in AgentIds |-> IF spend = 0 THEN NULL ELSE spend]
  /\ req = [r \in ReqSlots |-> ReqIdle]
  /\ op = [o \in OpSlots |-> OpIdle]
  /\ resp = ReqIdle
  /\ opResp = OpIdle
  /\ now = 0
  /\ mon = [t \in TickSlots |-> MonIdle]
  /\ triggers = {}
  /\ isRunning = TRUE
  /\ monitoring = EmptyBag

\* ------------------------------------------------- POST /api/usage/record
\* res.status(...).json(...): the handler ends and its response is sent
Respond(r, rec, code) ==
  /\ resp' = [rec EXCEPT !.pc = "done", !.code = code]
  /\ req' = [req EXCEPT ![r] = ReqIdle]

Continue(r, rec) ==
  /\ req' = [req EXCEPT ![r] = rec]
  /\ UNCHANGED resp

\* usageEventSchema.validate at the top of the route handler;
\* event_timestamp: Joi.date().iso().default(() => new Date())
HandlerEntry(r, rec) ==
  IF rec.valid
  THEN Continue(r, [rec EXCEPT !.pc = "ensure_customer",
                               !.event_timestamp = IF @ = NULL THEN now ELSE @])
  ELSE Respond(r, rec, "400_VALIDATION")

\* projectedSpend > agent.monthly_cost_limit
BudgetVerdict(spend, cost, limit) == spend + cost > limit

\* a budget check that lets every request through
AfterSpendOpen(r, rec, spend) ==
  HandlerEntry(r, [rec EXCEPT !.currentSpend = spend])

AfterSpend(r, rec, spend) ==
  IF BudgetVerdict(spend, rec.cost, rec.limit)
  THEN Continue(r, [rec EXCEPT !.currentSpend = spend, !.pc = "mw_suspend"])
  ELSE HandlerEntry(r, [rec EXCEPT !.currentSpend = spend])

\* enforceAgentBudget up to its first statement:
\* SELECT ... FROM agents WHERE agent_id = $1 AND user_id = $2
enforceAgentBudgetOn(r, rec) ==
  /\ callsLeft > 0
  /\ LowestFree(ReqSlots, req, r)
  /\ callsLeft' = callsLeft - 1
  /\ LET a == rec.agent_id
         row == agents[<<rec.user, a>>]
     IN IF a = "NULL" THEN Respond(r, rec, "400_MISSING_AGENT_ID")
        ELSE IF ~row.present THEN HandlerEntry(r, [rec EXCEPT !.deferred = TRUE])
        ELSE IF row.is_suspended THEN Respond(r, rec, "AGENT_SUSPENDED")
        ELSE IF row.monthly_cost_limit = NULL THEN HandlerEntry(r, rec)
        ELSE Continue(r, [rec EXCEPT !.limit = row.monthly_cost_limit,
                                     !.pc = "mw_get"])
  /\ UNCHANGED <<agents, globalStop, audit, ledger, customers, cache, op, opResp, now, redisUp, mon, triggers, isRunning, monitoring>>

\* POST /record with body {agent_id: a, cost_amount: c, event_timestamp: ts,
\* ...}; ok says whether the rest of the body satisfies usageEventSchema
enforceAgentBudget(r, u, a, c, ok, ts) ==
  enforceAgentBudgetOn(r, [ReqIdle EXCEPT !.id = callsLeft, !.user = u, !.agent_id = a,
                                          !.cost = c, !.valid = (ok /\ a # "NULL"),
                                          !.event_timestamp = ts])

\* POST /record-bulk with body {events: [n events]} and, when top is not NULL,
\* a top-level agent_id beside it. The route runs enforceAgentBudget on the
\* body first: req.body.agent_id is the top-level key and req.body.cost_amount
\* is undefined (0). bulkUsageSchema has the one key events, so a body that
\* gets past the middleware fails validation, and the transaction that
\* inserts the events is never reached.
RecordBulk(r, u, top, n) ==
  enforceAgentBudgetOn(r, [ReqIdle EXCEPT !.id = callsLeft, !.route = "record-bulk",
                                          !.events = n, !.user = u, !.agent_id = top,
                                          !.cost = 0, !.valid = FALSE])

\* enforceAgentBudget: currentSpend = await getAgentSpend(agent.agent_id)
BudgetGetSpend(r) ==
  /\ req[r].pc = "mw_get"
  /\ LET rec == req[r]
         spend == getAgentSpend(rec.agent_id, redisUp)
     IN IF spend = 0
        THEN Continue(r, [rec EXCEPT !.currentSpend = 0, !.pc = "mw_dbsum"])
        ELSE AfterSpend(r, rec, spend)
  /\ UNCHANGED <<agents, globalStop, audit, ledger, customers, cache, op, opResp, now, redisUp, mon, callsLeft, triggers, isRunning, monitoring>>

\* enforceAgentBudget: fallback SELECT COALESCE(SUM(cost_amount), 0)
BudgetDbSum(r) ==
  /\ req[r].pc = "mw_dbsum"
  /\ LET rec == req[r]
         spend == LedgerSum(Key(rec))
     IN IF spend > 0
        THEN Continue(r, [rec EXCEPT !.currentSpend = spend, !.pc = "mw_backfill"])
        ELSE AfterSpend(r, rec, spend)
  /\ UNCHANGED <<agents, globalStop, audit, ledger, customers, cache, op, opResp, now, redisUp, mon, callsLeft, triggers, isRunning, monitoring>>

\* enforceAgentBudget: await incrementAgentSpend(agent.agent_id, currentSpend)
BudgetBackfill(r) ==
  /\ req[r].pc = "mw_backfill"
  /\ cache' = incrementAgentSpend(req[r].agent_id, req[r].currentSpend, redisUp)
  /\ Continue(r, [req[r] EXCEPT !.pc = "mw_reget"])
  /\ UNCHANGED <<agents, globalStop, audit, ledger, customers, op, opResp, now, redisUp, mon, callsLeft, triggers, isRunning, monitoring>>

\* enforceAgentBudget: currentSpend = await getAgentSpend(...) after the backfill
BudgetReGet(r) ==
  /\ req[r].pc = "mw_reget"
  /\ AfterSpend(r, req[r], getAgentSpend(req[r].agent_id, redisUp))
  /\ UNCHANGED <<agents, globalStop, audit, ledger, customers, cache, op, opResp, now, redisUp, mon, callsLeft, triggers, isRunning, monitoring>>

\* enforceAgentBudget: UPDATE agents SET is_suspended = TRUE WHERE id = $1
BudgetSuspend(r) ==
  /\ req[r].pc = "mw_suspend"
  /\ agents' = [agents EXCEPT ![Key(req[r])].is_suspended = TRUE]
  /\ Respond(r, req[r], "BUDGET_LIMIT_EXCEEDED")
  /\ UNCHANGED <<globalStop, audit, ledger, customers, cache, op, opResp, now, redisUp, mon, callsLeft, triggers, isRunning, monitoring>>

\* ensureCustomerExists: SELECT id FROM customers WHERE user_id = $1 AND
\* customer_id = $2; every request names customer c1
EnsureCustomerSelect(r) ==
  /\ req[r].pc = "ensure_customer"
  /\ IF <<req[r].user, "c1">> \in customers
     THEN Continue(r, [req[r] EXCEPT !.pc = "ensure_select"])
     ELSE Continue(r, [req[r] EXCEPT !.pc = "customer_insert"])
  /\ UNCHANGED <<agents, globalStop, audit, ledger, customers, cache, op, opResp, now, redisUp, mon, callsLeft, triggers, isRunning, monitoring>>

\* ensureCustomerExists: INSERT INTO customers; UNIQUE(user_id, customer_id)
\* makes a second insert throw, which the route reports as 500
EnsureCustomerInsert(r) ==
  /\ req[r].pc = "customer_insert"
  /\ IF <<req[r].user, "c1">> \in customers
     THEN /\ Respond(r, req[r], "500")
          /\ UNCHANGED customers
     ELSE /\ customers' = customers \cup {<<req[r].user, "c1">>}
          /\ Continue(r, [req[r] EXCEPT !.pc = "ensure_select"])
  /\ UNCHANGED <<agents, globalStop, audit, ledger, cache, op, opResp, now, redisUp, mon, callsLeft, triggers, isRunning, monitoring>>

AfterEnsure(rec) ==
  [rec EXCEPT !.pc = IF rec.deferred THEN "post_select" ELSE "kc_global"]

\* ensureAgentExists: SELECT id FROM agents WHERE user_id = $1 AND agent_id = $2
EnsureAgentSelect(r) ==
  /\ req[r].pc = "ensure_select"
  /\ IF agents[Key(req[r])].present THEN Continue(r, AfterEnsure(req[r]))
     ELSE Continue(r, [req[r] EXCEPT !.pc = "ensure_insert"])
  /\ UNCHANGED <<agents, globalStop, audit, ledger, customers, cache, op, opResp, now, redisUp, mon, callsLeft, triggers, isRunning, monitoring>>

\* an insert that creates the agent killed
EnsureAgentInsertKilled(r) ==
  /\ req[r].pc = "ensure_insert"
  /\ IF agents[Key(req[r])].present
     THEN /\ Respond(r, req[r], "500")
          /\ UNCHANGED agents
     ELSE /\ agents' = [agents EXCEPT ![Key(req[r])] =
                          [NewAgentRow EXCEPT !.status = "killed"]]
          /\ Continue(r, AfterEnsure(req[r]))
  /\ UNCHANGED <<globalStop, audit, ledger, customers, cache, op, opResp, now, redisUp, mon, callsLeft, triggers, isRunning, monitoring>>

\* ensureAgentExists: INSERT INTO agents; UNIQUE(user_id, agent_id) makes a
\* second insert throw, which the route reports as 500
EnsureAgentInsert(r) ==
  /\ req[r].pc = "ensure_insert"
  /\ IF agents[Key(req[r])].present
     THEN /\ Respond(r, req[r], "500")
          /\ UNCHANGED agents
     ELSE /\ agents' = [agents EXCEPT ![Key(req[r])] = NewAgentRow]
          /\ Continue(r, AfterEnsure(req[r]))
  /\ UNCHANGED <<globalStop, audit, ledger, customers, cache, op, opResp, now, redisUp, mon, callsLeft, triggers, isRunning, monitoring>>

\* checkAgentBudgetAfterCreation: SELECT ... FROM agents WHERE id = $1;
\* a new agent is taken to have spent nothing
checkAgentBudgetAfterCreation(r) ==
  /\ req[r].pc = "post_select"
  /\ LET row == agents[Key(req[r])]
         rec == [req[r] EXCEPT !.limit = row.monthly_cost_limit]
     IN IF row.is_suspended THEN Respond(r, rec, "AGENT_SUSPENDED")
        ELSE IF row.monthly_cost_limit # NULL /\ rec.cost > row.monthly_cost_limit
        THEN Continue(r, [rec EXCEPT !.pc = "post_suspend"])
        ELSE Continue(r, [rec EXCEPT !.pc = "kc_global"])
  /\ UNCHANGED <<agents, globalStop, audit, ledger, customers, cache, op, opResp, now, redisUp, mon, callsLeft, triggers, isRunning, monitoring>>

\* checkAgentBudgetAfterCreation: UPDATE agents SET is_suspended = TRUE
PostCreationSuspend(r) ==
  /\ req[r].pc = "post_suspend"
  /\ agents' = [agents EXCEPT ![Key(req[r])].is_suspended = TRUE]
  /\ Respond(r, req[r], "BUDGET_LIMIT_EXCEEDED")
  /\ UNCHANGED <<globalStop, audit, ledger, customers, cache, op, opResp, now, redisUp, mon, callsLeft, triggers, isRunning, monitoring>>

\* the flag read and not acted on
IsAgentActiveGlobalIgnored(r) ==
  /\ req[r].pc = "kc_global"
  /\ Continue(r, [req[r] EXCEPT
       !.global_stopped = IF globalStop.is_emergency_stopped THEN "true" ELSE "false",
       !.started = now,
       !.pc = "kc_agent"])
  /\ UNCHANGED <<agents, globalStop, audit, ledger, customers, cache, op, opResp, now, redisUp, mon, callsLeft, triggers, isRunning, monitoring>>

\* checkAgentStatus sends SELECT is_agent_active($1, $2): the statement starts,
\* which fixes its NOW(), and the function runs SELECT is_emergency_stopped;
\* IF global_stopped RETURN FALSE
IsAgentActiveGlobal(r) ==
  /\ req[r].pc = "kc_global"
  /\ IF globalStop.is_emergency_stopped
     THEN Respond(r, [req[r] EXCEPT !.global_stopped = "true"], "AGENT_KILLED")
     ELSE Continue(r, [req[r] EXCEPT !.global_stopped = "false", !.started = now,
                                     !.pc = "kc_agent"])
  /\ UNCHANGED <<agents, globalStop, audit, ledger, customers, cache, op, opResp, now, redisUp, mon, callsLeft, triggers, isRunning, monitoring>>

\* is_agent_active: SELECT status, pause_until FROM agents and the tests on
\* it; NOW() is the minute the statement started
IsAgentActiveStatus(r) ==
  /\ req[r].pc = "kc_agent"
  /\ LET row == agents[Key(req[r])]
         at == req[r].started
         rec == [req[r] EXCEPT !.started = NULL]
     IN IF row.status = "NULL" \/ row.status = "killed"
        THEN Respond(r, rec, "AGENT_KILLED")
        ELSE IF row.status = "paused" /\ row.pause_until > at
        THEN Respond(r, rec, "AGENT_KILLED")
        ELSE IF row.status = "paused" /\ row.pause_until <= at
        THEN Continue(r, [rec EXCEPT !.pc = "kc_unpause"])
        ELSE IF row.status = "active" THEN Continue(r, [rec EXCEPT !.pc = "insert"])
        ELSE Respond(r, rec, "AGENT_KILLED")
  /\ UNCHANGED <<agents, globalStop, audit, ledger, customers, cache, op, opResp, now, redisUp, mon, callsLeft, triggers, isRunning, monitoring>>

\* is_agent_active: UPDATE agents SET status = 'active', pause_until = NULL
\* WHERE id = p_agent_id; RETURN TRUE
IsAgentActiveUnpause(r) ==
  /\ req[r].pc = "kc_unpause"
  /\ agents' = [agents EXCEPT ![Key(req[r])].status = "active",
                              ![Key(req[r])].pause_until = NULL]
  /\ Continue(r, [req[r] EXCEPT !.pc = "insert"])
  /\ UNCHANGED <<globalStop, audit, ledger, customers, cache, op, opResp, now, redisUp, mon, callsLeft, triggers, isRunning, monitoring>>

\* INSERT INTO usage_events
InsertUsageEvent(r) ==
  /\ req[r].pc = "insert"
  /\ ledger' = Append(ledger,
       [UsageEvent(req[r].user, Key(req[r]), req[r].cost, now)
          EXCEPT !.event_timestamp = req[r].event_timestamp])
  /\ Continue(r, [req[r] EXCEPT !.pc = "incr"])
  /\ UNCHANGED <<agents, globalStop, audit, customers, cache, op, opResp, now, redisUp, mon, callsLeft, triggers, isRunning, monitoring>>

\* incrementAgentSpend: await redisClient.hIncrByFloat(key, agentId, costAmount)
RecordIncrementSpend(r) ==
  /\ req[r].pc = "incr"
  /\ cache' = incrementAgentSpend(req[r].agent_id, req[r].cost, redisUp)
  /\ Continue(r, [req[r] EXCEPT !.pc = "expiry"])
  /\ UNCHANGED <<agents, globalStop, audit, ledger, customers, op, opResp, now, redisUp, mon, callsLeft, triggers, isRunning, monitoring>>

\* incrementAgentSpend: await redisClient.ttl(key) and expire(key), which
\* leave the spend as it is; then res.status(201)
RecordResponds(r) ==
  /\ req[r].pc = "expiry"
  /\ Respond(r, req[r], "201")
  /\ UNCHANGED <<agents, globalStop, audit, ledger, customers, cache, op, opResp, now, redisUp, mon, callsLeft, triggers, isRunning, monitoring>>

RecordStep(r) ==
  \/ BudgetGetSpend(r)
  \/ BudgetDbSum(r)
  \/ BudgetBackfill(r)
  \/ BudgetReGet(r)
  \/ BudgetSuspend(r)
  \/ EnsureCustomerSelect(r)
  \/ EnsureCustomerInsert(r)
  \/ EnsureAgentSelect(r)
  \/ EnsureAgentInsert(r)
  \/ checkAgentBudgetAfterCreation(r)
  \/ PostCreationSuspend(r)
  \/ IsAgentActiveGlobal(r)
  \/ IsAgentActiveStatus(r)
  \/ IsAgentActiveUnpause(r)
  \/ InsertUsageEvent(r)
  \/ RecordIncrementSpend(r)
  \/ RecordResponds(r)

\* a request body that passes usageEventSchema and leaves event_timestamp to
\* its default
ValidRecordArrives(r) ==
  \E u \in Tenants, a \in AgentIds, c \in Costs : enforceAgentBudget(r, u, a, c, TRUE, NULL)

\* a request body that passes usageEventSchema and dates its event
DatedRecordArrives(r) ==
  \E u \in Tenants, a \in AgentIds, c \in Costs :
    enforceAgentBudget(r, u, a, c, TRUE, LastMonth)

\* events: Joi.array().items(usageEventSchema).min(1).max(100)
BulkSizes == {1, 100}

RecordBulkArrives(r) ==
  \E u \in Tenants, top \in AgentIds \cup {"NULL"}, n \in BulkSizes : RecordBulk(r, u, top, n)

RecordArrives(r) ==
  \/ ValidRecordArrives(r)
  \/ DatedRecordArrives(r)
  \/ \E u \in Tenants, a \in AgentIds, c \in Costs :
       enforceAgentBudget(r, u, a, c, FALSE, NULL)
  \/ \E u \in Tenants : enforceAgentBudget(r, u, "NULL", 1, TRUE, NULL)

\* ------------------------------------------------------ /api/killswitch
\* the agent a kill-switch call names
OpKey(rec) == <<rec.user, rec.target>>

\* res.json(...) of a kill-switch or budget route
OpRespond(o, rec, code) ==
  /\ opResp' = [rec EXCEPT !.pc = "done", !.code = code]
  /\ op' = [op EXCEPT ![o] = OpIdle]

OpStart(o) ==
  /\ callsLeft > 0
  /\ LowestFree(OpSlots, op, o)
  /\ callsLeft' = callsLeft - 1

\* kill_reason written by POST /emergency-stop-all: `Emergency stop: ${reason}`
EmergencyReason(reason) ==
  IF reason = "ra" THEN "Emergency stop: ra" ELSE "Emergency stop: rb"

\* the schema without .valid(true): any boolean confirm is accepted
EmergencyStopAllUnconfirmed(o, u, reason, confirm) ==
  /\ OpStart(o)
  /\ globalStop' = [is_emergency_stopped |-> TRUE, stopped_at |-> now,
                    stop_reason |-> reason]
  /\ op' = [op EXCEPT ![o] =
       [OpIdle EXCEPT !.id = callsLeft, !.kind = "emergency_stop_all", !.user = u,
                      !.reason = reason, !.confirm = confirm, !.pc = "es_kill"]]
  /\ UNCHANGED <<agents, audit, ledger, customers, cache, req, resp, opResp, now, redisUp, mon, triggers, isRunning, monitoring>>

\* POST /emergency-stop-all: emergencyStopSchema.validate, then
\* UPDATE global_kill_switch SET is_emergency_stopped = true, ...
EmergencyStopAll(o, u, reason, confirm) ==
  /\ OpStart(o)
  /\ LET rec == [OpIdle EXCEPT !.id = callsLeft, !.kind = "emergency_stop_all",
                               !.user = u,
                               !.reason = reason, !.confirm = confirm]
     IN IF ~confirm
        THEN /\ OpRespond(o, rec, "400")
             /\ UNCHANGED globalStop
        ELSE /\ globalStop' = [is_emergency_stopped |-> TRUE, stopped_at |-> now,
                               stop_reason |-> reason]
             /\ op' = [op EXCEPT ![o] = [rec EXCEPT !.pc = "es_kill"]]
             /\ UNCHANGED opResp
  /\ UNCHANGED <<agents, audit, ledger, customers, cache, req, resp, now, redisUp, mon, triggers, isRunning, monitoring>>

\* the bulk UPDATE with WHERE status = 'active'
EmergencyStopKillActive(o) ==
  /\ op[o].pc = "es_kill"
  /\ agents' = [k \in AgentKey |->
       IF agents[k].present /\ agents[k].status = "active"
       THEN [agents[k] EXCEPT !.status = "killed", !.killed_at = now,
                              !.kill_reason = EmergencyReason(op[o].reason)]
       ELSE agents[k]]
  /\ op' = [op EXCEPT ![o].pc = "log"]
  /\ UNCHANGED <<globalStop, audit, ledger, customers, cache, req, resp, opResp, now, redisUp, mon, callsLeft, triggers, isRunning, monitoring>>

\* POST /emergency-stop-all: UPDATE agents SET status = 'killed', ...
\* WHERE status != 'killed'
EmergencyStopKillAgents(o) ==
  /\ op[o].pc = "es_kill"
  /\ agents' = [k \in AgentKey |->
       IF agents[k].present /\ agents[k].status # "killed"
       THEN [agents[k] EXCEPT !.status = "killed", !.killed_at = now,
                              !.kill_reason = EmergencyReason(op[o].reason)]
       ELSE agents[k]]
  /\ op' = [op EXCEPT ![o].pc = "log"]
  /\ UNCHANGED <<globalStop, audit, ledger, customers, cache, req, resp, opResp, now, redisUp, mon, callsLeft, triggers, isRunning, monitoring>>

\* POST /emergency-stop-disable: UPDATE global_kill_switch SET
\* is_emergency_stopped = false, stopped_at = NULL, ...
EmergencyStopDisable(o, u) ==
  /\ OpStart(o)
  /\ globalStop' = GlobalStopOff
  /\ op' = [op EXCEPT ![o] =
       [OpIdle EXCEPT !.id = callsLeft, !.kind = "emergency_stop_disabled",
                      !.user = u,
                      !.reason = "Emergency stop disabled", !.pc = "log"]]
  /\ UNCHANGED <<agents, audit, ledger, customers, cache, req, resp, opResp, now, redisUp, mon, triggers, isRunning, monitoring>>

\* a kill whose UPDATE has no status guard
KillAgentAgain(o, u, a, reason) ==
  /\ OpStart(o)
  /\ LET rec == [OpIdle EXCEPT !.id = callsLeft, !.kind = "kill_agent", !.user = u,
                               !.target = a,
                               !.reason = reason]
         row == agents[<<u, a>>]
     IN IF row.present
        THEN /\ agents' = [agents EXCEPT ![<<u, a>>] =
                  [row EXCEPT !.status = "killed", !.killed_at = now,
                              !.kill_reason = reason]]
             /\ op' = [op EXCEPT ![o] = [rec EXCEPT !.pc = "log"]]
             /\ UNCHANGED opResp
        ELSE /\ OpRespond(o, rec, "404")
             /\ UNCHANGED agents
  /\ UNCHANGED <<globalStop, audit, ledger, customers, cache, req, resp, now, redisUp, mon, triggers, isRunning, monitoring>>

\* POST /kill-agent/:agentId: UPDATE agents SET status = 'killed', ...
\* WHERE user_id = $1 AND agent_id = $3 AND status != 'killed' RETURNING id
KillAgent(o, u, a, reason) ==
  /\ OpStart(o)
  /\ LET rec == [OpIdle EXCEPT !.id = callsLeft, !.kind = "kill_agent", !.user = u,
                               !.target = a,
                               !.reason = reason]
         row == agents[<<u, a>>]
     IN IF row.present /\ row.status # "killed"
        THEN /\ agents' = [agents EXCEPT ![<<u, a>>] =
                  [row EXCEPT !.status = "killed", !.killed_at = now,
                              !.kill_reason = reason]]
             /\ op' = [op EXCEPT ![o] = [rec EXCEPT !.pc = "log"]]
             /\ UNCHANGED opResp
        ELSE /\ OpRespond(o, rec, "404")
             /\ UNCHANGED agents
  /\ UNCHANGED <<globalStop, audit, ledger, customers, cache, req, resp, now, redisUp, mon, triggers, isRunning, monitoring>>

\* POST /kill-customer/:customerId: SELECT id FROM customers WHERE user_id = $1
\* AND customer_id = $2 (no row: 404)
KillCustomer(o, u, c, reason) ==
  /\ OpStart(o)
  /\ LET rec == [OpIdle EXCEPT !.id = callsLeft, !.kind = "kill_customer", !.user = u,
                               !.target = c,
                               !.reason = reason]
     IN IF <<u, c>> \in customers
        THEN /\ op' = [op EXCEPT ![o] = [rec EXCEPT !.pc = "kill_update"]]
             /\ UNCHANGED opResp
        ELSE OpRespond(o, rec, "404")
  /\ UNCHANGED <<agents, globalStop, audit, ledger, customers, cache, req, resp, now, redisUp, mon, triggers, isRunning, monitoring>>

\* POST /kill-customer/:customerId: UPDATE agents SET status = 'killed', ...
\* WHERE user_id = $1 AND id IN (SELECT a.id FROM agents a JOIN customers c
\* ON a.user_id = c.user_id WHERE c.id = $3 AND a.status != 'killed')
KillCustomerUpdate(o) ==
  /\ op[o].pc = "kill_update"
  /\ LET u == op[o].user
         c == op[o].target
         joined == {k \in AgentKey : /\ agents[k].present
                                      /\ \E cu \in customers : cu = <<u, c>> /\ k[1] = cu[1]
                                      /\ agents[k].status # "killed"}
     IN agents' = [k \in AgentKey |->
                  IF k[1] = u /\ k \in joined
                  THEN [agents[k] EXCEPT !.status = "killed", !.killed_at = now,
                                         !.kill_reason = op[o].reason]
                  ELSE agents[k]]
  /\ op' = [op EXCEPT ![o].pc = "log"]
  /\ UNCHANGED <<globalStop, audit, ledger, customers, cache, req, resp, opResp, now, redisUp, mon,
                 callsLeft, triggers, isRunning, monitoring>>

\* POST /pause-agent/:agentId: pauseUntil = new Date(Date.now() +
\* duration_minutes * 60000), then the UPDATE is sent
PauseAgent(o, u, a, minutes, reason) ==
  /\ OpStart(o)
  /\ op' = [op EXCEPT ![o] =
       [OpIdle EXCEPT !.id = callsLeft, !.kind = "pause_agent", !.user = u, !.target = a,
                      !.reason = reason, !.pauseUntil = now + minutes,
                      !.pc = "pause_update"]]
  /\ UNCHANGED <<agents, globalStop, audit, ledger, customers, cache, req, resp, opResp, now,
                 redisUp, mon, triggers, isRunning, monitoring>>

\* a pause whose UPDATE has no status guard
PauseAgentUpdateAnyStatus(o) ==
  /\ op[o].pc = "pause_update"
  /\ LET k == <<op[o].user, op[o].target>>
         row == agents[k]
     IN IF row.present
        THEN /\ agents' = [agents EXCEPT ![k] =
                  [row EXCEPT !.status = "paused", !.pause_until = op[o].pauseUntil,
                              !.kill_reason = op[o].reason]]
             /\ op' = [op EXCEPT ![o].pc = "log"]
             /\ UNCHANGED opResp
        ELSE /\ OpRespond(o, op[o], "404")
             /\ UNCHANGED agents
  /\ UNCHANGED <<globalStop, audit, ledger, customers, cache, req, resp, now, redisUp, mon,
                 callsLeft, triggers, isRunning, monitoring>>

\* a pause that stores no expiry
PauseAgentUpdateNoExpiry(o) ==
  /\ op[o].pc = "pause_update"
  /\ LET k == <<op[o].user, op[o].target>>
         row == agents[k]
     IN IF row.present /\ row.status = "active"
        THEN /\ agents' = [agents EXCEPT ![k] =
                  [row EXCEPT !.status = "paused", !.kill_reason = op[o].reason]]
             /\ op' = [op EXCEPT ![o].pc = "log"]
             /\ UNCHANGED opResp
        ELSE /\ OpRespond(o, op[o], "404")
             /\ UNCHANGED agents
  /\ UNCHANGED <<globalStop, audit, ledger, customers, cache, req, resp, now, redisUp, mon,
                 callsLeft, triggers, isRunning, monitoring>>

\* POST /pause-agent/:agentId: UPDATE agents SET status = 'paused',
\* pause_until = $1, kill_reason = $2 WHERE ... AND status = 'active'
PauseAgentUpdate(o) ==
  /\ op[o].pc = "pause_update"
  /\ LET k == <<op[o].user, op[o].target>>
         row == agents[k]
     IN IF row.present /\ row.status = "active"
        THEN /\ agents' = [agents EXCEPT ![k] =
                  [row EXCEPT !.status = "paused", !.pause_until = op[o].pauseUntil,
                              !.kill_reason = op[o].reason]]
             /\ op' = [op EXCEPT ![o].pc = "log"]
             /\ UNCHANGED opResp
        ELSE /\ OpRespond(o, op[o], "404")
             /\ UNCHANGED agents
  /\ UNCHANGED <<globalStop, audit, ledger, customers, cache, req, resp, now, redisUp, mon,
                 callsLeft, triggers, isRunning, monitoring>>

\* POST /revive-agent/:agentId: UPDATE agents SET status = 'active',
\* pause_until = NULL, kill_reason = NULL, killed_at = NULL, killed_by = NULL
\* WHERE ... AND status IN ('killed', 'paused')
ReviveAgent(o, u, a) ==
  /\ OpStart(o)
  /\ LET rec == [OpIdle EXCEPT !.id = callsLeft, !.kind = "revive_agent", !.user = u,
                               !.target = a,
                               !.reason = "Manual revival"]
         row == agents[<<u, a>>]
     IN IF row.present /\ row.status \in {"killed", "paused"}
        THEN /\ agents' = [agents EXCEPT ![<<u, a>>] =
                  [row EXCEPT !.status = "active", !.pause_until = NULL,
                              !.kill_reason = "NULL", !.killed_at = NULL]]
             /\ op' = [op EXCEPT ![o] = [rec EXCEPT !.pc = "log"]]
             /\ UNCHANGED opResp
        ELSE /\ OpRespond(o, rec, "404")
             /\ UNCHANGED agents
  /\ UNCHANGED <<globalStop, audit, ledger, customers, cache, req, resp, now, redisUp, mon, triggers, isRunning, monitoring>>

TargetType(kind) ==
  IF kind \in {"emergency_stop_all", "emergency_stop_disabled"} THEN "global"
  ELSE IF kind = "kill_customer" THEN "customer"
  ELSE "agent"

\* a log that puts the newest record first
logKillSwitchEventOnTop(o) ==
  /\ op[o].pc = "log"
  /\ audit' = << [event_type |-> op[o].kind,
                  target_type |-> TargetType(op[o].kind),
                  target_id |-> op[o].target,
                  user_id |-> op[o].user,
                  triggered_by |-> "manual",
                  reason |-> op[o].reason,
                  created_at |-> now] >> \o audit
  /\ OpRespond(o, op[o], "200")
  /\ UNCHANGED <<agents, globalStop, ledger, customers, cache, req, resp, now, redisUp, mon, callsLeft, triggers, isRunning, monitoring>>

\* logKillSwitchEvent: INSERT INTO kill_switch_events, then res.json(...)
logKillSwitchEvent(o) ==
  /\ op[o].pc = "log"
  /\ audit' = Append(audit, [event_type |-> op[o].kind,
                             target_type |-> TargetType(op[o].kind),
                             target_id |-> op[o].target,
                             user_id |-> op[o].user,
                             triggered_by |-> "manual",
                             reason |-> op[o].reason,
                             created_at |-> now])
  /\ OpRespond(o, op[o], "200")
  /\ UNCHANGED <<agents, globalStop, ledger, customers, cache, req, resp, now, redisUp, mon, callsLeft, triggers, isRunning, monitoring>>

\* ---------------------------------------------------------- /api/agents
\* the budget routes are one statement each
BudgetRoute(kind, u, a, code) ==
  /\ callsLeft > 0
  /\ callsLeft' = callsLeft - 1
  /\ opResp' = [OpIdle EXCEPT !.pc = "done", !.id = callsLeft, !.kind = kind, !.user = u,
                              !.target = a, !.code = code]
  /\ UNCHANGED <<globalStop, audit, ledger, customers, cache, req, op, resp, now, redisUp, mon, triggers, isRunning, monitoring>>

\* PATCH /:agentId/budget: UPDATE agents SET monthly_cost_limit = $1
SetBudget(u, a, limit) ==
  /\ IF agents[<<u, a>>].present
     THEN /\ agents' = [agents EXCEPT ![<<u, a>>].monthly_cost_limit = limit]
          /\ BudgetRoute("budget", u, a, "200")
     ELSE /\ UNCHANGED agents
          /\ BudgetRoute("budget", u, a, "404")

\* suspendAgent: UPDATE agents SET is_suspended = TRUE
suspendAgent(u, a) ==
  /\ IF agents[<<u, a>>].present
     THEN /\ agents' = [agents EXCEPT ![<<u, a>>].is_suspended = TRUE]
          /\ BudgetRoute("suspend", u, a, "200")
     ELSE /\ UNCHANGED agents
          /\ BudgetRoute("suspend", u, a, "404")

\* reactivateAgent: UPDATE agents SET is_suspended = FALSE
reactivateAgent(u, a) ==
  /\ IF agents[<<u, a>>].present
     THEN /\ agents' = [agents EXCEPT ![<<u, a>>].is_suspended = FALSE]
          /\ BudgetRoute("reactivate", u, a, "200")
     ELSE /\ UNCHANGED agents
          /\ BudgetRoute("reactivate", u, a, "404")

\* GET /check-agent/:agentId: SELECT ..., is_agent_active(id, user_id) as
\* is_active FROM agents WHERE user_id = $1 AND agent_id = $2. The statement
\* starts, which fixes its NOW(); no row: 404. For the row it finds it calls
\* the function, whose statements follow one by one
CheckAgent(o, u, a) ==
  /\ OpStart(o)
  /\ LET rec == [OpIdle EXCEPT !.id = callsLeft, !.kind = "check_agent", !.user = u,
                               !.target = a, !.started = now]
     IN IF agents[<<u, a>>].present
        THEN /\ op' = [op EXCEPT ![o] = [rec EXCEPT !.pc = "ca_global"]]
             /\ UNCHANGED opResp
        ELSE OpRespond(o, rec, "404")
  /\ UNCHANGED <<agents, globalStop, audit, ledger, customers, cache, req, resp, now,
                 redisUp, mon, triggers, isRunning, monitoring>>

\* is_agent_active: SELECT is_emergency_stopped; IF global_stopped RETURN FALSE
CheckAgentGlobal(o) ==
  /\ op[o].pc = "ca_global"
  /\ IF globalStop.is_emergency_stopped
     THEN OpRespond(o, [op[o] EXCEPT !.is_active = FALSE, !.started = NULL], "200")
     ELSE /\ op' = [op EXCEPT ![o].pc = "ca_agent"]
          /\ UNCHANGED opResp
  /\ UNCHANGED <<agents, globalStop, audit, ledger, customers, cache, req, resp, now,
                 redisUp, mon, callsLeft, triggers, isRunning, monitoring>>

\* is_agent_active: SELECT status, pause_until FROM agents and the tests on it
CheckAgentStatus(o) ==
  /\ op[o].pc = "ca_agent"
  /\ LET row == agents[OpKey(op[o])]
         rec == [op[o] EXCEPT !.started = NULL]
     IN IF row.status = "NULL" \/ row.status = "killed"
        THEN OpRespond(o, [rec EXCEPT !.is_active = FALSE], "200")
        ELSE IF row.status = "paused" /\ row.pause_until > op[o].started
        THEN OpRespond(o, [rec EXCEPT !.is_active = FALSE], "200")
        ELSE IF row.status = "paused" /\ row.pause_until <= op[o].started
        THEN /\ op' = [op EXCEPT ![o] = [rec EXCEPT !.pc = "ca_unpause"]]
             /\ UNCHANGED opResp
        ELSE OpRespond(o, [rec EXCEPT !.is_active = (row.status = "active")], "200")
  /\ UNCHANGED <<agents, globalStop, audit, ledger, customers, cache, req, resp, now,
                 redisUp, mon, callsLeft, triggers, isRunning, monitoring>>

\* is_agent_active: UPDATE agents SET status = 'active', pause_until = NULL
\* WHERE id = p_agent_id; RETURN TRUE
CheckAgentUnpause(o) ==
  /\ op[o].pc = "ca_unpause"
  /\ agents' = [agents EXCEPT ![OpKey(op[o])].status = "active",
                              ![OpKey(op[o])].pause_until = NULL]
  /\ OpRespond(o, [op[o] EXCEPT !.is_active = TRUE], "200")
  /\ UNCHANGED <<globalStop, audit, ledger, customers, cache, req, resp, now,
                 redisUp, mon, callsLeft, triggers, isRunning, monitoring>>

\* the statements of a check-agent call
CheckAgentStep(o) ==
  \/ CheckAgentGlobal(o)
  \/ CheckAgentStatus(o)
  \/ CheckAgentUnpause(o)

OperatorCall(o) ==
  \/ \E u \in Tenants, reason \in Reasons : EmergencyStopAll(o, u, reason, TRUE)
  \/ \E u \in Tenants : EmergencyStopAll(o, u, "ra", FALSE)
  \/ \E u \in Tenants : EmergencyStopDisable(o, u)
  \/ \E u \in Tenants, a \in AgentIds : KillAgent(o, u, a, "rb")
  \/ \E u \in Tenants, a \in AgentIds : PauseAgent(o, u, a, 1, "ra")
  \/ \E u \in Tenants, a \in AgentIds : ReviveAgent(o, u, a)

OperatorStep(o) ==
  \/ EmergencyStopKillAgents(o)
  \/ PauseAgentUpdate(o)
  \/ logKillSwitchEvent(o)

BudgetCall ==
  \/ \E u \in Tenants, a \in AgentIds, limit \in Costs \cup {NULL} : SetBudget(u, a, limit)
  \/ \E u \in Tenants, a \in AgentIds : suspendAgent(u, a)
  \/ \E u \in Tenants, a \in AgentIds : reactivateAgent(u, a)

Tick ==
  /\ now < MaxTime
  /\ now' = now + 1
  /\ UNCHANGED <<agents, globalStop, audit, ledger, customers, cache, req, op, resp, opResp,
                 redisUp, mon, callsLeft, triggers, isRunning, monitoring>>

\* The Redis connection drops or comes back (reconnectStrategy)
RedisFlips ==
  /\ redisUp' = ~redisUp
  /\ UNCHANGED <<agents, globalStop, audit, ledger, customers, cache, req, op, resp, opResp,
                 now, callsLeft, mon, triggers, isRunning, monitoring>>

Next ==
  \/ \E r \in ReqSlots : RecordArrives(r)
  \/ \E r \in ReqSlots : RecordStep(r)
  \/ \E o \in OpSlots : OperatorCall(o)
  \/ \E o \in OpSlots : OperatorStep(o)
  \/ BudgetCall
  \/ Tick
  \/ RedisFlips

Spec == Init /\ [][Next]_vars

\* No handler is in flight
Quiet == (\A r \in ReqSlots : req[r].pc = "idle") /\ (\A o \in OpSlots : op[o].pc = "idle")

\* no kill-switch handler is in flight
NoCall == \A o \in OpSlots : op[o].pc = "idle"

\* no POST /record handler is in flight
NoRequest == \A r \in ReqSlots : req[r].pc = "idle"

\* no run of the monitor is in flight
NoRun == \A t \in TickSlots : mon[t].pc = "idle"

\* Steps of POST /record that an agent created by the same request can reach
\* when nothing runs between its statements
SerialRecordStep(r) ==
  \/ BudgetGetSpend(r)
  \/ BudgetDbSum(r)
  \/ BudgetBackfill(r)
  \/ BudgetReGet(r)
  \/ BudgetSuspend(r)
  \/ EnsureCustomerSelect(r)
  \/ EnsureCustomerInsert(r)
  \/ EnsureAgentSelect(r)
  \/ EnsureAgentInsert(r)
  \/ checkAgentBudgetAfterCreation(r)
  \/ IsAgentActiveGlobal(r)
  \/ IsAgentActiveStatus(r)
  \/ InsertUsageEvent(r)
  \/ RecordIncrementSpend(r)
  \/ RecordResponds(r)

\* The budget gate: usage requests and budget routes served one at a time,
\* Redis failing at any statement
InitGate ==
  /\ \E limit \in Costs \cup {NULL}, spend \in Costs \cup {0} : Seeded(limit, spend, FALSE)
  /\ redisUp \in BOOLEAN
  /\ callsLeft = GateCalls

NextGate ==
  \/ Quiet /\ \E r \in ReqSlots : RecordArrives(r)
  \/ Quiet /\ \E r \in ReqSlots : RecordBulkArrives(r)
  \/ \E r \in ReqSlots : SerialRecordStep(r)
  \/ Quiet /\ BudgetCall
  \/ RedisFlips

SpecGate == InitGate /\ [][NextGate]_vars

\* Steps of POST /record that can be taken while Redis is up and holds the
\* spend of every agent that has a limit: the ledger fallback is never entered
CachedRecordStep(r) ==
  \/ BudgetGetSpend(r)
  \/ BudgetSuspend(r)
  \/ EnsureCustomerSelect(r)
  \/ EnsureCustomerInsert(r)
  \/ EnsureAgentSelect(r)
  \/ EnsureAgentInsert(r)
  \/ checkAgentBudgetAfterCreation(r)
  \/ IsAgentActiveGlobal(r)
  \/ IsAgentActiveStatus(r)
  \/ IsAgentActiveUnpause(r)
  \/ InsertUsageEvent(r)
  \/ RecordIncrementSpend(r)
  \/ RecordResponds(r)

\* The kill switch: usage requests and kill-switch routes served one at a time
StopSeeds == {<<NULL, 0, FALSE>>, <<2, 2, TRUE>>}

InitStop ==
  /\ \E s \in StopSeeds : Seeded(s[1], s[2], s[3])
  /\ redisUp = TRUE
  /\ callsLeft = StopCalls

NextStop ==
  \/ Quiet /\ \E r \in ReqSlots : ValidRecordArrives(r)
  \/ \E r \in ReqSlots : CachedRecordStep(r)
  \/ Quiet /\ \E o \in OpSlots : OperatorCall(o)
  \/ \E o \in OpSlots : OperatorStep(o)
  \/ Quiet /\ Tick

SpecStop == InitStop /\ [][NextStop]_vars

\* The kill switch with a usage request and a kill-switch route interleaving
\* at every statement
InitRace ==
  /\ \E s \in StopSeeds : Seeded(s[1], s[2], s[3])
  /\ redisUp = TRUE
  /\ callsLeft = RaceCalls

NextRace ==
  \/ NoRequest /\ \E r \in ReqSlots : ValidRecordArrives(r)
  \/ \E r \in ReqSlots : CachedRecordStep(r)
  \/ NoCall /\ \E o \in OpSlots : OperatorCall(o)
  \/ \E o \in OpSlots : OperatorStep(o)
  \/ Tick

SpecRace == InitRace /\ [][NextRace]_vars
\* A store left by a budget denial: agent a1 of u1 has the given limit, one
\* recorded event of cost `spend` that the cache has counted, and its
\* is_suspended flag set; u2 has no agent.
SuspendedSeed(limit, spend) ==
  /\ agents = [k \in AgentKey |->
       IF k = <<"u1", "a1">>
       THEN [NewAgentRow EXCEPT !.monthly_cost_limit = limit, !.is_suspended = TRUE]
       ELSE NoRow]
  /\ globalStop = GlobalStopOff
  /\ audit = << >>
  /\ ledger = << UsageEvent("u1", <<"u1", "a1">>, spend, 0) >>
  /\ customers = {<<"u1", "c1">>}
  /\ cache = [a \in AgentIds |-> spend]
  /\ req = [r \in ReqSlots |-> ReqIdle]
  /\ op = [o \in OpSlots |-> OpIdle]
  /\ resp = ReqIdle
  /\ opResp = OpIdle
  /\ now = 0
  /\ mon = [t \in TickSlots |-> MonIdle]
  /\ triggers = {}
  /\ isRunning = TRUE
  /\ monitoring = EmptyBag

\* A store in which tenant u1 has two customers: agent a1 of u1 has recorded
\* one event, for customer c1; customer c2 was registered by a request that
\* was denied after ensureCustomerExists and has no event. Tenant u2 has an
\* agent and customer c1.
CustomerSeed ==
  /\ agents = [k \in AgentKey |-> NewAgentRow]
  /\ globalStop = GlobalStopOff
  /\ audit = << >>
  /\ ledger = << UsageEvent("u1", <<"u1", "a1">>, 1, 0) >>
  /\ customers = {<<"u1", "c1">>, <<"u1", "c2">>, <<"u2", "c1">>}
  /\ cache = [a \in AgentIds |-> 1]
  /\ req = [r \in ReqSlots |-> ReqIdle]
  /\ op = [o \in OpSlots |-> OpIdle]
  /\ resp = ReqIdle
  /\ opResp = OpIdle
  /\ now = 0
  /\ mon = [t \in TickSlots |-> MonIdle]
  /\ triggers = {}
  /\ isRunning = TRUE
  /\ monitoring = EmptyBag

\* The life cycle of one agent: usage requests and the kill, pause and revive
\* routes served one at a time
LifeSeeds == {<<NULL, 0, FALSE>>, <<2, 1, TRUE>>}

InitLife ==
  /\ \/ \E s \in LifeSeeds : Seeded(s[1], s[2], s[3])
     \/ SuspendedSeed(2, 1)
     \/ CustomerSeed
  /\ redisUp = TRUE
  /\ callsLeft = LifeCalls

LifeCall(o) ==
  \/ \E u \in Tenants, a \in AgentIds, reason \in Reasons : KillAgent(o, u, a, reason)
  \/ \E u \in Tenants, a \in AgentIds : PauseAgent(o, u, a, 1, "ra")
  \/ \E u \in Tenants, a \in AgentIds : ReviveAgent(o, u, a)
  \/ \E u \in Tenants, c \in CustomerNames : KillCustomer(o, u, c, "ra")

NextLife ==
  \/ Quiet /\ \E r \in ReqSlots : ValidRecordArrives(r)
  \/ \E r \in ReqSlots : CachedRecordStep(r)
  \/ Quiet /\ \E o \in OpSlots : LifeCall(o)
  \/ \E o \in OpSlots : KillCustomerUpdate(o)
  \/ \E o \in OpSlots : PauseAgentUpdate(o)
  \/ \E o \in OpSlots : logKillSwitchEvent(o)
  \/ Quiet /\ Tick

SpecLife == InitLife /\ [][NextLife]_vars

\* ------------------------------------------------------ KillSwitchMonitor
\* POST /record takes event_name and model from the body
EventNames == {"e1", "e2"}
Models == {"m1", "m2"}

\* checkInfiniteLoops: the events of agent k with event_name e, model m and
\* request_hash h created in the last ten minutes
IdenticalRequests(k, e, m, h) ==
  Cardinality({i \in 1..Len(ledger) :
     /\ ledger[i].agent = k
     /\ ledger[i].event_name = e
     /\ ledger[i].model = m
     /\ ledger[i].request_hash = h
     /\ ledger[i].created_at >= now - LoopWindow})

\* a threshold that the count has to exceed
LoopVerdictStrict(count) == count > LoopThreshold

\* HAVING COUNT(*) >= 50
LoopVerdict(count) == count >= LoopThreshold

\* the rows of loopDetectionQuery: one per (agent, event_name, model,
\* request_hash) group of an active agent, request_hash IS NOT NULL, handed to
\* triggerAutoKill with threshold_value: loop.identical_requests
RequestPatterns ==
  {KillRow(g[1], <<g[2], g[3], g[4]>>, "Auto Loop Detection", "infinite_loop",
           ToString(IdenticalRequests(g[1], g[2], g[3], g[4]))) :
     g \in {x \in AgentKey \X EventNames \X Models \X {"h1"} :
              /\ agents[x[1]].present
              /\ agents[x[1]].status = "active"
              /\ IdenticalRequests(x[1], x[2], x[3], x[4]) > 0
              /\ LoopVerdict(IdenticalRequests(x[1], x[2], x[3], x[4]))}}

\* `Auto-kill triggered: ${trigger.trigger_name} (${trigger.trigger_type})
\* exceeded threshold of ${trigger.threshold_value}`
ReasonText(name, ttype, threshold) ==
  "Auto-kill triggered: " \o name \o " (" \o ttype \o ") exceeded threshold of " \o threshold

\* the reason of a kill by the loop rule that counted `count` requests
AutoKillReason(count) == ReasonText("Auto Loop Detection", "infinite_loop", ToString(count))

\* triggerAutoKill: UPDATE agents SET status = 'killed', killed_at = NOW(),
\* kill_reason = $1 WHERE id = $2 AND status = 'active', then INSERT INTO
\* kill_switch_events whatever the UPDATE did
triggerAutoKill(row, st) ==
  [agents |-> IF st.agents[row.k].status = "active"
              THEN [st.agents EXCEPT ![row.k].status = "killed",
                                     ![row.k].killed_at = now,
                                     ![row.k].kill_reason =
                                        ReasonText(row.name, row.ttype, row.threshold)]
              ELSE st.agents,
   audit |-> Append(st.audit, [event_type |-> "kill_agent",
                               target_type |-> "agent",
                               target_id |-> row.k[2],
                               user_id |-> row.k[1],
                               triggered_by |-> "auto_" \o row.ttype,
                               reason |-> ReasonText(row.name, row.ttype, row.threshold),
                               created_at |-> now])]

\* ------------------------------------------- checkSpendRates, checkErrorRates
SpendTypes == {"spend_rate", "total_daily_spend"}

\* trigger_name of the spend triggers that POST /triggers has stored
TriggerName(ttype) == IF ttype = "spend_rate" THEN "spend" ELSE "daily"

\* threshold_value DECIMAL(15,6) as the driver returns it
Decimal(n) == ToString(n) \o ".000000"

\* the reason of a kill for a trigger of the given type and threshold
AutoKillReasonOf(ttype, threshold) ==
  IF ttype = "error_rate"
  THEN ReasonText("Auto Error Rate Detection", "error_rate", Decimal(threshold))
  ELSE ReasonText(TriggerName(ttype), ttype, Decimal(threshold))

\* ue.created_at >= NOW() - INTERVAL '1 minute' | '1 hour', or >= CURRENT_DATE
WindowStart(trig) ==
  IF trig.trigger_type = "total_daily_spend" THEN now - (now % MinutesPerDay)
  ELSE IF trig.threshold_unit = "per_hour" THEN now - 60
  ELSE now - 1

\* the units that a cost_amount of the model is made of
CostUnits == 1..(CHOOSE m \in Costs : \A c \in Costs : c <= m)

\* SUM(ue.cost_amount) over the given rows of usage_events: a cost of n counts
\* n times
SumRows(rows) == Cardinality({x \in rows \X CostUnits : x[2] <= ledger[x[1]].cost})

\* the usage_events rows of one group of the violation query:
\* WHERE ue.user_id = $1 AND ue.created_at >= window ... GROUP BY a.id, c.customer_id
GroupRows(trig, k, c) ==
  {i \in 1..Len(ledger) : /\ ledger[i].user = trig.user
                          /\ ledger[i].agent = k
                          /\ ledger[i].customer = c
                          /\ <<ledger[i].user, c>> \in customers
                          /\ ledger[i].created_at >= WindowStart(trig)}

\* the rows of the violation query: AND a.status = 'active' ...
\* HAVING SUM(ue.cost_amount) > $2
SpendViolations(trig, ags) ==
  {v \in AgentKey \X CustomerNames :
     /\ ags[v[1]].present
     /\ ags[v[1]].status = "active"
     /\ GroupRows(trig, v[1], v[2]) # {}
     /\ SumRows(GroupRows(trig, v[1], v[2])) > trig.threshold_value}

\* WHERE t.is_active = true AND t.trigger_type IN ('spend_rate', 'total_daily_spend')
ActiveSpendTriggers == {g \in triggers : g.is_active /\ g.trigger_type \in SpendTypes}

\* agent_stats: the events of agent k of the last 15 minutes
StatRows(k) ==
  {i \in 1..Len(ledger) : ledger[i].agent = k /\ ledger[i].created_at >= now - ErrorWindow}

ErrorCount(k) == Cardinality({i \in StatRows(k) : ledger[i].error})

\* a sample that is always large enough
SampleVerdictAny(count) == count > 0

\* HAVING COUNT(*) >= 10
SampleVerdict(count) == count >= MinSample

\* high_error_agents: JOIN kill_switch_triggers t ON t.user_id = ast.user_id
\* WHERE t.trigger_type = 'error_rate' AND t.is_active = true
\* AND ast.error_rate > t.threshold_value
HighErrorAgents ==
  {v \in AgentKey \X triggers :
     /\ agents[v[1]].present
     /\ agents[v[1]].status = "active"
     /\ SampleVerdict(Cardinality(StatRows(v[1])))
     /\ v[2].user = v[1][1]
     /\ v[2].trigger_type = "error_rate"
     /\ v[2].is_active
     /\ ErrorCount(v[1]) * 100 > v[2].threshold_value * Cardinality(StatRows(v[1]))}

\* the members of Promise.all beside checkInfiniteLoops
OtherChecks == {"spend", "error", "rates"}

\* checkInfiniteLoops has returned: Promise.all waits for the other members
LoopEnds(run) == [run EXCEPT !.pc = "wait", !.rows = {}, !.row = NoKillRow]

\* check c has returned, through its catch block when thrown
CheckEnds(run, c, thrown) ==
  [run EXCEPT ![c] = IF c = "rates" THEN RatesIdle ELSE CheckIdle, !.due = @ \ {c},
              !.failed = IF thrown THEN @ \cup {c} ELSE @]

\* checkSpendRateTrigger has returned: the next trigger of the for loop of
\* checkSpendRates, or the end of the check
AfterTrigger(run) ==
  IF run.spend.trigs = {} THEN CheckEnds(run, "spend", FALSE)
  ELSE [run EXCEPT !.spend.pc = "violations", !.spend.rows = {}, !.spend.row = NoKillRow]

\* the for loop over the rows of a check has ended
AfterRows(run, c) ==
  IF c = "spend" THEN AfterTrigger(run) ELSE CheckEnds(run, c, FALSE)

\* KillSwitchMonitor.stop(), which initialize() installs as the handler of
\* SIGTERM: clearInterval and isRunning = false; the process goes on serving
\* requests, and the runs in flight go on
stop ==
  /\ isRunning
  /\ isRunning' = FALSE
  /\ UNCHANGED <<agents, globalStop, audit, ledger, customers, cache, req, op, resp, opResp,
                 now, redisUp, mon, callsLeft, triggers, monitoring>>

\* setInterval(() => this.performMonitoringChecks(), 30000): the timer starts a
\* run whether or not an earlier one has finished; Promise.all calls
\* checkSpendRates, checkInfiniteLoops, checkErrorRates and
\* updateSpendRateMonitoring, each of which runs up to its first await: the
\* first three send their query, the last takes windowEnd from the clock and
\* sends its INSERT
performMonitoringChecks(t) ==
  /\ isRunning
  /\ LowestFree(TickSlots, mon, t)
  /\ mon' = [mon EXCEPT ![t] =
       [MonIdle EXCEPT !.pc = "query", !.due = OtherChecks,
                       !.spend.pc = "triggers",
                       !.error.pc = "query",
                       !.rates = [pc |-> "insert", windowEnd |-> now]]]
  /\ UNCHANGED <<agents, globalStop, audit, ledger, customers, cache, req, op, resp, opResp,
                 now, redisUp, callsLeft, triggers, isRunning, monitoring>>

\* KillSwitchMonitor.start(): a monitor that is running only logs and returns;
\* otherwise isRunning = true, the initial performMonitoringChecks() is called
\* (it runs up to the first await of each member) and setInterval is armed
start(t) ==
  /\ ~isRunning
  /\ isRunning' = TRUE
  /\ LowestFree(TickSlots, mon, t)
  /\ mon' = [mon EXCEPT ![t] =
       [MonIdle EXCEPT !.pc = "query", !.due = OtherChecks,
                       !.spend.pc = "triggers",
                       !.error.pc = "query",
                       !.rates = [pc |-> "insert", windowEnd |-> now]]]
  /\ UNCHANGED <<agents, globalStop, audit, ledger, customers, cache, req, op, resp, opResp,
                 now, redisUp, callsLeft, triggers, monitoring>>

\* const loops = await db.query(loopDetectionQuery)
LoopDetectionQuery(t) ==
  /\ mon[t].pc = "query"
  /\ mon' = [mon EXCEPT ![t] = IF RequestPatterns = {} THEN LoopEnds(mon[t])
                                ELSE [mon[t] EXCEPT !.pc = "next", !.rows = RequestPatterns]]
  /\ UNCHANGED <<agents, globalStop, audit, ledger, customers, cache, req, op, resp, opResp,
                 now, redisUp, callsLeft, triggers, isRunning, monitoring>>

\* triggerAutoKill for the next row, in the order the query returned the
\* rows: the UPDATE of agents
AutoKillUpdate(t) ==
  /\ mon[t].pc = "next"
  /\ \E g \in mon[t].rows :
       /\ agents' = triggerAutoKill(g, [agents |-> agents, audit |-> audit]).agents
       /\ mon' = [mon EXCEPT ![t] = [mon[t] EXCEPT !.pc = "log", !.rows = mon[t].rows \ {g},
                                                   !.row = g]]
  /\ UNCHANGED <<globalStop, audit, ledger, customers, cache, req, op, resp, opResp,
                 now, redisUp, callsLeft, triggers, isRunning, monitoring>>

\* triggerAutoKill: the INSERT INTO kill_switch_events, then the next row or
\* the end of the check
AutoKillLog(t) ==
  /\ mon[t].pc = "log"
  /\ audit' = triggerAutoKill(mon[t].row, [agents |-> agents, audit |-> audit]).audit
  /\ mon' = [mon EXCEPT ![t] = IF mon[t].rows = {} THEN LoopEnds(mon[t])
                                ELSE [mon[t] EXCEPT !.pc = "next", !.row = NoKillRow]]
  /\ UNCHANGED <<agents, globalStop, ledger, customers, cache, req, op, resp, opResp,
                 now, redisUp, callsLeft, triggers, isRunning, monitoring>>

\* the UPDATE or the INSERT of triggerAutoKill throws: its catch logs 'Error
\* triggering auto kill' and the for loop of checkInfiniteLoops goes on; a
\* failed UPDATE leaves the agent as it is, a failed INSERT leaves the kill
\* without its kill_switch_events row
AutoKillThrows(t) ==
  /\ mon[t].pc \in {"next", "log"}
  /\ \E g \in (IF mon[t].pc = "next" THEN mon[t].rows ELSE {mon[t].row}) :
       LET run == [mon[t] EXCEPT !.failed = @ \cup {"loop_kill"}, !.rows = @ \ {g},
                                 !.row = NoKillRow]
       IN mon' = [mon EXCEPT ![t] = IF run.rows = {} THEN LoopEnds(run)
                                     ELSE [run EXCEPT !.pc = "next"]]
  /\ UNCHANGED <<agents, globalStop, audit, ledger, customers, cache, req, op, resp, opResp,
                 now, redisUp, callsLeft, triggers, isRunning, monitoring>>

MonitorStep(t) ==
  \/ LoopDetectionQuery(t)
  \/ AutoKillUpdate(t)
  \/ AutoKillLog(t)

\* checkSpendRates: const triggers = await db.query(SELECT t.* FROM
\* kill_switch_triggers ... WHERE t.is_active = true AND t.trigger_type IN ...)
checkSpendRates(t) ==
  /\ mon[t].spend.pc = "triggers"
  /\ mon' = [mon EXCEPT ![t] =
       AfterTrigger([mon[t] EXCEPT !.spend.trigs = ActiveSpendTriggers])]
  /\ UNCHANGED <<agents, globalStop, audit, ledger, customers, cache, req, op, resp, opResp,
                 now, redisUp, callsLeft, triggers, isRunning, monitoring>>

\* checkSpendRateTrigger for the next trigger, in the order the query returned
\* the triggers: const violations = await db.query(query, [trigger.user_id,
\* trigger.threshold_value])
checkSpendRateTrigger(t) ==
  /\ mon[t].spend.pc = "violations"
  /\ \E g \in mon[t].spend.trigs :
       LET rows == {KillRow(v[1], <<v[2]>>, TriggerName(g.trigger_type), g.trigger_type,
                            Decimal(g.threshold_value)) : v \in SpendViolations(g, agents)}
           run == [mon[t] EXCEPT !.spend.trigs = @ \ {g}]
       IN mon' = [mon EXCEPT ![t] = IF rows = {} THEN AfterTrigger(run)
                                     ELSE [run EXCEPT !.spend.pc = "next", !.spend.rows = rows]]
  /\ UNCHANGED <<agents, globalStop, audit, ledger, customers, cache, req, op, resp, opResp,
                 now, redisUp, callsLeft, triggers, isRunning, monitoring>>

\* the violation query of a trigger throws: the catch of checkSpendRateTrigger
\* logs it and the for loop of checkSpendRates goes on to the next trigger
SpendRateTriggerThrows(t) ==
  /\ mon[t].spend.pc = "violations"
  /\ \E g \in mon[t].spend.trigs :
       mon' = [mon EXCEPT ![t] =
         AfterTrigger([mon[t] EXCEPT !.spend.trigs = @ \ {g},
                                     !.failed = @ \cup {"trigger"}])]
  /\ UNCHANGED <<agents, globalStop, audit, ledger, customers, cache, req, op, resp, opResp,
                 now, redisUp, callsLeft, triggers, isRunning, monitoring>>

\* checkErrorRates: const highErrorAgents = await db.query(errorRateQuery),
\* one row for each agent and trigger (t.id as trigger_id), handed to
\* triggerAutoKill with threshold_value: agent.threshold_value
checkErrorRates(t) ==
  /\ mon[t].error.pc = "query"
  /\ LET rows == {KillRow(v[1], <<v[2].id>>, "Auto Error Rate Detection", "error_rate",
                          Decimal(v[2].threshold_value)) : v \in HighErrorAgents}
     IN mon' = [mon EXCEPT ![t] = IF rows = {} THEN CheckEnds(mon[t], "error", FALSE)
                                   ELSE [mon[t] EXCEPT !.error.pc = "next",
                                                       !.error.rows = rows]]
  /\ UNCHANGED <<agents, globalStop, audit, ledger, customers, cache, req, op, resp, opResp,
                 now, redisUp, callsLeft, triggers, isRunning, monitoring>>

\* triggerAutoKill for the next row of a spend or error check, in the order
\* the query returned the rows: the UPDATE of agents
ViolationKillUpdate(t, c) ==
  /\ mon[t][c].pc = "next"
  /\ \E g \in mon[t][c].rows :
       /\ agents' = triggerAutoKill(g, [agents |-> agents, audit |-> audit]).agents
       /\ mon' = [mon EXCEPT ![t][c] = [mon[t][c] EXCEPT !.pc = "log", !.rows = @ \ {g},
                                                         !.row = g]]
  /\ UNCHANGED <<globalStop, audit, ledger, customers, cache, req, op, resp, opResp,
                 now, redisUp, callsLeft, triggers, isRunning, monitoring>>

\* triggerAutoKill: the INSERT INTO kill_switch_events, then the next row, the
\* next trigger or the end of the check
ViolationKillLog(t, c) ==
  /\ mon[t][c].pc = "log"
  /\ audit' = triggerAutoKill(mon[t][c].row, [agents |-> agents, audit |-> audit]).audit
  /\ mon' = [mon EXCEPT ![t] = IF mon[t][c].rows = {} THEN AfterRows(mon[t], c)
                                ELSE [mon[t] EXCEPT ![c].pc = "next", ![c].row = NoKillRow]]
  /\ UNCHANGED <<agents, globalStop, ledger, customers, cache, req, op, resp, opResp,
                 now, redisUp, callsLeft, triggers, isRunning, monitoring>>

\* the UPDATE or the INSERT of triggerAutoKill throws in a spend or error
\* check: the catch of triggerAutoKill logs it and the for loop over the rows
\* goes on
ViolationKillThrows(t, c) ==
  /\ mon[t][c].pc \in {"next", "log"}
  /\ \E g \in (IF mon[t][c].pc = "next" THEN mon[t][c].rows ELSE {mon[t][c].row}) :
       LET run == [mon[t] EXCEPT !.failed = @ \cup {c \o "_kill"}, ![c].rows = @ \ {g},
                                 ![c].row = NoKillRow]
       IN mon' = [mon EXCEPT ![t] = IF run[c].rows = {} THEN AfterRows(run, c)
                                     ELSE [run EXCEPT ![c].pc = "next"]]
  /\ UNCHANGED <<agents, globalStop, audit, ledger, customers, cache, req, op, resp, opResp,
                 now, redisUp, callsLeft, triggers, isRunning, monitoring>>

\* agent_window_stats: the events with created_at between windowStart and
\* windowEnd of the agents that are active, GROUP BY ue.user_id,
\* ue.customer_id, ue.agent_id
InWindow(i, u, c, k, windowEnd) ==
  /\ ledger[i].user = u
  /\ ledger[i].customer = c
  /\ ledger[i].agent = k
  /\ ledger[i].created_at >= windowEnd - RateWindow
  /\ ledger[i].created_at <= windowEnd

WindowRows(u, c, k, windowEnd) ==
  {i \in 1..Len(ledger) : InWindow(i, u, c, k, windowEnd)}

\* SUM(ue.cost_amount) over the rows of the group
WindowCost(u, c, k, windowEnd) == SumRows(WindowRows(u, c, k, windowEnd))

\* the rows the INSERT ... SELECT adds: user_id, customer_id, agent_id,
\* window_end, total_cost, total_requests, error_count; window_start and the
\* three rates follow from these; total_tokens, which POST /record of the
\* model never sends, is left out
WindowStats(windowEnd) ==
  LET groups == {<<ledger[i].user, ledger[i].customer, ledger[i].agent>> :
                   i \in {j \in 1..Len(ledger) : /\ ledger[j].created_at >= windowEnd - RateWindow
                                                  /\ ledger[j].created_at <= windowEnd}}
  IN  {[user |-> g[1], customer |-> g[2], agent |-> g[3], window_end |-> windowEnd,
        total_cost |-> WindowCost(g[1], g[2], g[3], windowEnd),
        total_requests |-> Cardinality(WindowRows(g[1], g[2], g[3], windowEnd)),
        error_count |-> Cardinality({i \in WindowRows(g[1], g[2], g[3], windowEnd) :
                                       ledger[i].error})] :
         g \in {x \in groups : /\ x[3] \in AgentKey
                                /\ agents[x[3]].present
                                /\ agents[x[3]].status = "active"}}

\* the table with the rows added; of equal rows MaxSamples are told apart
InsertRows(table, rows) ==
  [x \in DOMAIN table \cup rows |->
     IF x \notin rows THEN table[x]
     ELSE IF x \notin DOMAIN table THEN 1
     ELSE IF table[x] < MaxSamples THEN table[x] + 1
     ELSE table[x]]

\* updateSpendRateMonitoring: await db.query(INSERT INTO spend_rate_monitoring
\* ... SELECT ... FROM agent_window_stats WHERE total_requests > 0)
updateSpendRateMonitoring(t) ==
  /\ mon[t].rates.pc = "insert"
  /\ LET rows == WindowStats(mon[t].rates.windowEnd)
     IN  monitoring' = IF rows = {} THEN monitoring ELSE InsertRows(monitoring, rows)
  /\ mon' = [mon EXCEPT ![t] = CheckEnds(mon[t], "rates", FALSE)]
  /\ UNCHANGED <<agents, globalStop, audit, ledger, customers, cache, req, op, resp, opResp,
                 now, redisUp, callsLeft, triggers, isRunning>>

\* the first query of check c is about to be answered
FirstQuery(t, c) ==
  \/ c = "spend" /\ mon[t].spend.pc = "triggers"
  \/ c = "error" /\ mon[t].error.pc = "query"
  \/ c = "rates" /\ mon[t].rates.pc = "insert"

\* a throw that ends the check and clears the timer
CheckThrowsStops(t, c) ==
  /\ FirstQuery(t, c)
  /\ mon' = [mon EXCEPT ![t] = CheckEnds(mon[t], c, TRUE)]
  /\ isRunning' = FALSE
  /\ UNCHANGED <<agents, globalStop, audit, ledger, customers, cache, req, op, resp, opResp,
                 now, redisUp, callsLeft, triggers, monitoring>>

\* db.query throws in checkSpendRates, checkErrorRates or
\* updateSpendRateMonitoring: catch (error) { console.error(...) }
CheckThrows(t, c) ==
  /\ FirstQuery(t, c)
  /\ mon' = [mon EXCEPT ![t] = CheckEnds(mon[t], c, TRUE)]
  /\ UNCHANGED <<agents, globalStop, audit, ledger, customers, cache, req, op, resp, opResp,
                 now, redisUp, callsLeft, triggers, isRunning, monitoring>>

\* every member of Promise.all has returned: await Promise.all resumes and
\* the run is over
MonitoringChecksEnd(t) ==
  /\ mon[t].pc = "wait"
  /\ mon[t].due = {}
  /\ mon' = [mon EXCEPT ![t] = MonIdle]
  /\ UNCHANGED <<agents, globalStop, audit, ledger, customers, cache, req, op, resp, opResp,
                 now, redisUp, callsLeft, triggers, isRunning, monitoring>>

\* the steps of the members of Promise.all beside checkInfiniteLoops when no
\* tenant has a trigger, and the end of the run
OtherCheckStep(t) ==
  \/ checkSpendRates(t)
  \/ checkErrorRates(t)
  \/ updateSpendRateMonitoring(t)
  \/ MonitoringChecksEnd(t)

\* db.query(loopDetectionQuery) throws
LoopDetectionThrows(t) ==
  /\ mon[t].pc = "query"
  /\ mon' = [mon EXCEPT ![t] = LoopEnds([mon[t] EXCEPT !.failed = @ \cup {"loop"}])]
  /\ UNCHANGED <<agents, globalStop, audit, ledger, customers, cache, req, op, resp, opResp,
                 now, redisUp, callsLeft, triggers, isRunning, monitoring>>

\* the steps of a request for an agent without a limit
UnlimitedRecordStep(r) ==
  \/ EnsureCustomerSelect(r)
  \/ EnsureCustomerInsert(r)
  \/ EnsureAgentSelect(r)
  \/ EnsureAgentInsert(r)
  \/ checkAgentBudgetAfterCreation(r)
  \/ IsAgentActiveGlobal(r)
  \/ IsAgentActiveStatus(r)
  \/ InsertUsageEvent(r)
  \/ RecordIncrementSpend(r)
  \/ RecordResponds(r)

\* A store after a burst of n requests of agent a1 of u1, of cost 1 each: `old`
\* of them ten minutes ago, the others now; the last one differs from the
\* others as `odd` says (another event_name, another model, or no request_hash).
LoopSeed(n, old, odd) ==
  /\ agents = [k \in AgentKey |-> IF k = <<"u1", "a1">> THEN NewAgentRow ELSE NoRow]
  /\ globalStop = GlobalStopOff
  /\ audit = << >>
  /\ ledger = [i \in 1..n |->
       [UsageEvent("u1", <<"u1", "a1">>, 1, IF i <= old THEN 0 - LoopWindow ELSE 0)
          EXCEPT !.event_name = IF i = n /\ odd = "name" THEN "e2" ELSE @,
                 !.model = IF i = n /\ odd = "model" THEN "m2" ELSE @,
                 !.request_hash = IF i = n /\ odd = "nohash" THEN "NULL" ELSE @]]
  /\ customers = {<<"u1", "c1">>}
  /\ cache = [a \in AgentIds |-> n]
  /\ req = [r \in ReqSlots |-> ReqIdle]
  /\ op = [o \in OpSlots |-> OpIdle]
  /\ resp = ReqIdle
  /\ opResp = OpIdle
  /\ now = 0
  /\ mon = [t \in TickSlots |-> MonIdle]
  /\ triggers = {}
  /\ isRunning = TRUE
  /\ monitoring = EmptyBag

\* The loop rule: usage requests, the monitor's check and revive served one at
\* a time
InitLoop ==
  /\ \/ \E n \in {LoopThreshold - 1, LoopThreshold}, old \in {0, 1} : LoopSeed(n, old, "none")
     \/ \E odd \in {"name", "model", "nohash"} : LoopSeed(LoopThreshold, 0, odd)
  /\ redisUp = TRUE
  /\ callsLeft = LoopCalls

NextLoop ==
  \/ Quiet /\ NoRun /\ \E r \in ReqSlots : ValidRecordArrives(r)
  \/ \E r \in ReqSlots : UnlimitedRecordStep(r)
  \/ Quiet /\ NoRun /\ \E t \in TickSlots : performMonitoringChecks(t)
  \/ \E t \in TickSlots : MonitorStep(t)
  \/ \E t \in TickSlots : OtherCheckStep(t)
  \/ Quiet /\ NoRun /\ \E o \in OpSlots, u \in Tenants, a \in AgentIds : ReviveAgent(o, u, a)
  \/ \E o \in OpSlots : logKillSwitchEvent(o)
  \/ Quiet /\ NoRun /\ Tick
  \/ stop
  \/ Quiet /\ NoRun /\ \E t \in TickSlots : start(t)

SpecLoop == InitLoop /\ [][NextLoop]_vars

\* setInterval runs the check every 30 seconds until stop() clears it, and a
\* handler that has started runs to its response
SpecLoopLive ==
  /\ InitLoop
  /\ [][NextLoop]_vars
  /\ WF_vars(Quiet /\ NoRun /\ \E t \in TickSlots : performMonitoringChecks(t))
  /\ WF_vars(\E t \in TickSlots : MonitorStep(t))
  /\ WF_vars(\E t \in TickSlots : OtherCheckStep(t))
  /\ WF_vars(\E r \in ReqSlots : UnlimitedRecordStep(r))
  /\ WF_vars(\E o \in OpSlots : logKillSwitchEvent(o))

\* ------------------------------------------- pause expiry against a kill
\* A store in which agent a1 of u1, with limit 2 and one recorded event of
\* cost 1, was paused a minute ago for one minute, the shortest pause there is
\* (POST /pause-agent stores its reason in kill_reason); u2 has no agent.
PausedSeed ==
  /\ agents = [k \in AgentKey |->
       IF k = <<"u1", "a1">>
       THEN [NewAgentRow EXCEPT !.status = "paused", !.pause_until = 0,
                                !.kill_reason = "ra", !.monthly_cost_limit = 2]
       ELSE NoRow]
  /\ globalStop = GlobalStopOff
  /\ audit = << [event_type |-> "pause_agent", target_type |-> "agent",
                 target_id |-> "a1", user_id |-> "u1", triggered_by |-> "manual",
                 reason |-> "ra", created_at |-> 0 - 1] >>
  /\ ledger = << UsageEvent("u1", <<"u1", "a1">>, 1, 0 - 1) >>
  /\ customers = {<<"u1", "c1">>}
  /\ cache = [a \in AgentIds |-> 1]
  /\ req = [r \in ReqSlots |-> ReqIdle]
  /\ op = [o \in OpSlots |-> OpIdle]
  /\ resp = ReqIdle
  /\ opResp = OpIdle
  /\ now = 0
  /\ mon = [t \in TickSlots |-> MonIdle]
  /\ triggers = {}
  /\ isRunning = TRUE
  /\ monitoring = EmptyBag

InitHeal ==
  /\ PausedSeed
  /\ redisUp = TRUE
  /\ callsLeft = HealCalls

\* a usage request runs statement by statement against kill and revive calls
NextHeal ==
  \/ NoRequest /\ \E r \in ReqSlots : ValidRecordArrives(r)
  \/ \E r \in ReqSlots : CachedRecordStep(r)
  \/ NoCall /\ \E o \in OpSlots, u \in Tenants, a \in AgentIds, reason \in Reasons :
       KillAgent(o, u, a, reason)
  \/ NoCall /\ \E o \in OpSlots, u \in Tenants, a \in AgentIds : ReviveAgent(o, u, a)
  \/ \E o \in OpSlots : logKillSwitchEvent(o)

SpecHeal == InitHeal /\ [][NextHeal]_vars

\* ------------------------------------------- two usage requests at once
\* A store whose cache has lost the agent's total (the monthly hash expired or
\* Redis restarted): agent a1 of u1 has the given limit and one recorded event
\* of cost `spend`; u2 has no agent.
MissSeed(limit, spend) ==
  /\ agents = [k \in AgentKey |->
       IF k = <<"u1", "a1">> THEN [NewAgentRow EXCEPT !.monthly_cost_limit = limit]
       ELSE NoRow]
  /\ globalStop = GlobalStopOff
  /\ audit = << >>
  /\ ledger = << UsageEvent("u1", <<"u1", "a1">>, spend, 0) >>
  /\ customers = {<<"u1", "c1">>}
  /\ cache = [a \in AgentIds |-> NULL]
  /\ req = [r \in ReqSlots |-> ReqIdle]
  /\ op = [o \in OpSlots |-> OpIdle]
  /\ resp = ReqIdle
  /\ opResp = OpIdle
  /\ now = 0
  /\ mon = [t \in TickSlots |-> MonIdle]
  /\ triggers = {}
  /\ isRunning = TRUE
  /\ monitoring = EmptyBag

InitPair ==
  /\ \/ Seeded(2, 1, FALSE)
     \/ MissSeed(3, 1)
  /\ redisUp = TRUE
  /\ callsLeft = PairCalls

\* up to two POST /record handlers run statement by statement against each
\* other
NextPair ==
  \/ \E r \in ReqSlots : ValidRecordArrives(r)
  \/ \E r \in ReqSlots : SerialRecordStep(r)

SpecPair == InitPair /\ [][NextPair]_vars

\* ------------------------------------------ two kill-switch calls at once
\* both tenants have an active agent
InitHalt ==
  /\ Seeded(NULL, 0, TRUE)
  /\ redisUp = TRUE
  /\ callsLeft = HaltCalls

\* up to two of emergency-stop-all, emergency-stop-disable and revive-agent run
\* statement by statement against each other
NextHalt ==
  \/ \E o \in OpSlots, u \in Tenants, reason \in Reasons : EmergencyStopAll(o, u, reason, TRUE)
  \/ \E o \in OpSlots : EmergencyStopKillAgents(o)
  \/ \E o \in OpSlots, u \in Tenants : EmergencyStopDisable(o, u)
  \/ \E o \in OpSlots, u \in Tenants, a \in AgentIds : ReviveAgent(o, u, a)
  \/ \E o \in OpSlots : logKillSwitchEvent(o)

SpecHalt == InitHalt /\ [][NextHalt]_vars

\* --------------------------------------------- runs of the monitor at once
\* an agent with 50 events of one signature, all recent
InitTick ==
  /\ LoopSeed(LoopThreshold, 0, "none")
  /\ redisUp = TRUE
  /\ callsLeft = TickCalls

\* the timer, the runs it started, and a kill call, statement by statement,
\* and the clock
NextTick ==
  \/ \E t \in TickSlots : performMonitoringChecks(t)
  \/ \E t \in TickSlots : MonitorStep(t)
  \/ \E t \in TickSlots : OtherCheckStep(t)
  \/ NoCall /\ \E o \in OpSlots, u \in Tenants, a \in AgentIds : KillAgent(o, u, a, "ra")
  \/ \E o \in OpSlots : logKillSwitchEvent(o)
  \/ Tick

SpecTick == InitTick /\ [][NextTick]_vars

\* ------------------------------------- every path that kills or pauses
\* two tenants with an agent each, a1 of u1 with limit 2 and spend 1; or an
\* agent with 50 events of one signature; or an agent whose pause has run out
InitPaths ==
  /\ \/ Seeded(2, 1, TRUE)
     \/ LoopSeed(LoopThreshold, 0, "none")
     \/ PausedSeed
  /\ redisUp = TRUE
  /\ callsLeft = PathCalls

\* the routes that kill, pause or revive
PathsCall(o) ==
  \/ \E u \in Tenants : EmergencyStopAll(o, u, "ra", TRUE)
  \/ \E u \in Tenants, a \in AgentIds : KillAgent(o, u, a, "rb")
  \/ \E u \in Tenants, a \in AgentIds : PauseAgent(o, u, a, 1, "ra")
  \/ \E u \in Tenants, a \in AgentIds : ReviveAgent(o, u, a)
  \/ \E u \in Tenants : KillCustomer(o, u, "c1", "ra")

\* a usage request, a kill-switch route and the monitor interleaving at every
\* statement
NextPaths ==
  \/ NoRequest /\ \E r \in ReqSlots : ValidRecordArrives(r)
  \/ \E r \in ReqSlots : CachedRecordStep(r)
  \/ NoCall /\ \E o \in OpSlots : PathsCall(o)
  \/ \E o \in OpSlots : OperatorStep(o)
  \/ \E o \in OpSlots : KillCustomerUpdate(o)
  \/ (\A t \in TickSlots : mon[t].pc = "idle") /\ \E t \in TickSlots : performMonitoringChecks(t)
  \/ \E t \in TickSlots : MonitorStep(t)
  \/ \E t \in TickSlots : OtherCheckStep(t)

SpecPaths == InitPaths /\ [][NextPaths]_vars

\* ------------------------------------------------ the triggers of a tenant
\* a usage event of agent a1 of tenant u for customer c
Ev(u, c, cost, err) ==
  [UsageEvent(u, <<u, "a1">>, cost, 0) EXCEPT !.customer = c, !.error = err]

\* what u1's agent has spent in the last hour: 3 for one customer, 3 over two
\* customers, or 2; u2's agent has spent 3
SpendLedgers ==
  {<<Ev("u1", "c1", 2, FALSE), Ev("u1", "c1", 1, FALSE), Ev("u2", "c1", 2, FALSE),
     Ev("u2", "c1", 1, FALSE)>>,
   <<Ev("u1", "c1", 2, FALSE), Ev("u1", "c2", 1, FALSE), Ev("u2", "c1", 2, FALSE),
     Ev("u2", "c1", 1, FALSE)>>,
   <<Ev("u1", "c1", 2, FALSE), Ev("u2", "c1", 2, FALSE), Ev("u2", "c1", 1, FALSE)>>}

\* 9 or 10 events of u1's agent, all of them or 5 of them with metadata.error
ErrorLedgers ==
  {[i \in 1..n |-> Ev("u1", "c1", 1, i <= e)] : n \in {MinSample - 1, MinSample},
                                               e \in {5, MinSample}}

\* 50 events of one signature
LoopLedgers == {[i \in 1..LoopThreshold |-> Ev("u1", "c1", 1, FALSE)]}

\* a row of kill_switch_triggers of tenant u1
Trigger(id, ttype, threshold, unit, active) ==
  [id |-> id, user |-> "u1", trigger_type |-> ttype, threshold_value |-> threshold,
   threshold_unit |-> unit, is_active |-> active]

\* what POST /triggers of tenant u1 has stored: one spend trigger with threshold 2 per hour
\* and one error_rate trigger with threshold 50, each active or not; or an
\* active trigger of each spend type
TriggerSets ==
  {{Trigger(1, ty, 2, "per_hour", act), Trigger(2, "error_rate", 50, "percentage", eact)} :
     ty \in SpendTypes, act \in BOOLEAN, eact \in BOOLEAN}
  \cup {{Trigger(1, "spend_rate", 2, "per_hour", TRUE),
         Trigger(2, "total_daily_spend", 2, "per_day", TRUE)}}

\* :triggerId of a PUT or DELETE call
TriggerIds == {1, 2, 3}

\* the id of the next row of kill_switch_triggers
NewTriggerId ==
  CHOOSE i \in 1..(Cardinality(triggers) + 1) : \A g \in triggers : g.id # i

\* a trigger route is one statement
TriggerRoute(kind, u, id, code) ==
  /\ callsLeft > 0
  /\ callsLeft' = callsLeft - 1
  /\ opResp' = [OpIdle EXCEPT !.pc = "done", !.id = callsLeft, !.kind = kind, !.user = u,
                              !.target = ToString(id), !.code = code]
  /\ UNCHANGED <<agents, globalStop, audit, ledger, customers, cache, req, op, resp, now,
                 redisUp, mon, isRunning, monitoring>>

\* POST /triggers {trigger_type, threshold_value, threshold_unit}, is_active
\* left to its default: INSERT INTO kill_switch_triggers
CreateTrigger(u, ttype, threshold, unit) ==
  /\ triggers' = triggers \cup
       {[Trigger(NewTriggerId, ttype, threshold, unit, TRUE) EXCEPT !.user = u]}
  /\ TriggerRoute("create_trigger", u, NewTriggerId, "201")

\* PUT /triggers/:triggerId {threshold_value} or {is_active}: UPDATE
\* kill_switch_triggers SET ... WHERE user_id = $1 AND id = $n
UpdateTrigger(u, id, field, value) ==
  IF \E g \in triggers : g.user = u /\ g.id = id
  THEN /\ triggers' = {IF g.user = u /\ g.id = id
                         THEN (IF field = "is_active" THEN [g EXCEPT !.is_active = value]
                               ELSE [g EXCEPT !.threshold_value = value])
                         ELSE g : g \in triggers}
       /\ TriggerRoute("update_trigger", u, id, "200")
  ELSE /\ UNCHANGED triggers
       /\ TriggerRoute("update_trigger", u, id, "404")

\* DELETE /triggers/:triggerId: DELETE FROM kill_switch_triggers WHERE
\* user_id = $1 AND id = $2
DeleteTrigger(u, id) ==
  IF \E g \in triggers : g.user = u /\ g.id = id
  THEN /\ triggers' = {g \in triggers : ~(g.user = u /\ g.id = id)}
       /\ TriggerRoute("delete_trigger", u, id, "200")
  ELSE /\ UNCHANGED triggers
       /\ TriggerRoute("delete_trigger", u, id, "404")

\* the bodies of the trigger calls
TriggerBodies == {<<"spend_rate", 1, "per_hour">>, <<"error_rate", 50, "percentage">>}
TriggerUpdates == {<<"is_active", FALSE>>, <<"is_active", TRUE>>, <<"threshold_value", 1>>}

TriggerCall ==
  \/ \E u \in Tenants, b \in TriggerBodies : CreateTrigger(u, b[1], b[2], b[3])
  \/ \E u \in Tenants, id \in TriggerIds, b \in TriggerUpdates :
       UpdateTrigger(u, id, b[1], b[2])
  \/ \E u \in Tenants, id \in TriggerIds : DeleteTrigger(u, id)

RECURSIVE SeqCost(_)
SeqCost(events) ==
  IF events = << >> THEN 0 ELSE Head(events).cost + SeqCost(Tail(events))

\* A store in which both tenants have an active agent a1 without a limit, the
\* given events have been recorded now and tenant u1 has the given triggers
RuleSeed(events, trigs) ==
  /\ agents = [k \in AgentKey |-> NewAgentRow]
  /\ globalStop = GlobalStopOff
  /\ audit = << >>
  /\ ledger = events
  /\ customers = {<<"u1", "c1">>, <<"u1", "c2">>, <<"u2", "c1">>}
  /\ cache = [a \in AgentIds |-> SeqCost(events)]
  /\ req = [r \in ReqSlots |-> ReqIdle]
  /\ op = [o \in OpSlots |-> OpIdle]
  /\ resp = ReqIdle
  /\ opResp = OpIdle
  /\ now = 0
  /\ mon = [t \in TickSlots |-> MonIdle]
  /\ triggers = trigs
  /\ isRunning = TRUE
  /\ monitoring = EmptyBag

\* the trigger sets whose spend trigger is of type spend_rate
RateTriggerSets ==
  {g \in TriggerSets : \A x \in g : x.trigger_type # "total_daily_spend"}

\* what a tenant has spent, under every trigger set; or a burst of identical
\* requests, under a spend_rate and an error_rate trigger
InitRule ==
  /\ \/ \E events \in SpendLedgers, trigs \in TriggerSets : RuleSeed(events, trigs)
     \/ \E events \in LoopLedgers, trigs \in RateTriggerSets : RuleSeed(events, trigs)
  /\ redisUp = TRUE
  /\ callsLeft = RuleCalls

\* one run of the monitor at a time, the members of Promise.all interleaving,
\* and a revive call or a trigger call
NextRule ==
  \/ (\A t \in TickSlots : mon[t].pc = "idle") /\ \E t \in TickSlots : performMonitoringChecks(t)
  \/ \E t \in TickSlots : MonitorStep(t)
  \/ \E t \in TickSlots : checkSpendRates(t)
  \/ \E t \in TickSlots : checkSpendRateTrigger(t)
  \/ \E t \in TickSlots : SpendRateTriggerThrows(t)
  \/ \E t \in TickSlots : checkErrorRates(t)
  \/ \E t \in TickSlots : updateSpendRateMonitoring(t)
  \/ \E t \in TickSlots, c \in {"spend", "error"} : ViolationKillUpdate(t, c)
  \/ \E t \in TickSlots, c \in {"spend", "error"} : ViolationKillLog(t, c)
  \/ \E t \in TickSlots : MonitoringChecksEnd(t)
  \/ NoCall /\ TriggerCall
  \/ NoCall /\ \E o \in OpSlots, u \in Tenants, a \in AgentIds : ReviveAgent(o, u, a)
  \/ \E o \in OpSlots : logKillSwitchEvent(o)

SpecRule == InitRule /\ [][NextRule]_vars

\* ------------------------------------------------------ the error-rate rule
\* tenant u1 has one error_rate trigger with threshold 50, active or not, or
\* two active ones with the same threshold
ErrorTriggerSets ==
  {{Trigger(1, "error_rate", 50, "percentage", act)} : act \in BOOLEAN}
  \cup {{Trigger(1, "error_rate", 50, "percentage", TRUE),
         Trigger(2, "error_rate", 50, "percentage", TRUE)}}

\* a burst of 9 or 10 events, half or all of them errors
InitError ==
  /\ \E events \in ErrorLedgers, trigs \in ErrorTriggerSets : RuleSeed(events, trigs)
  /\ redisUp = TRUE
  /\ callsLeft = ErrorCalls

\* one run of the monitor at a time, the members of Promise.all interleaving
\* with a trigger call, and a kill that throws
NextError ==
  \/ (\A t \in TickSlots : mon[t].pc = "idle") /\ \E t \in TickSlots : performMonitoringChecks(t)
  \/ \E t \in TickSlots : LoopDetectionQuery(t)
  \/ \E t \in TickSlots : checkSpendRates(t)
  \/ \E t \in TickSlots : checkSpendRateTrigger(t)
  \/ \E t \in TickSlots : checkErrorRates(t)
  \/ \E t \in TickSlots : updateSpendRateMonitoring(t)
  \/ \E t \in TickSlots, c \in {"spend", "error"} : ViolationKillUpdate(t, c)
  \/ \E t \in TickSlots, c \in {"spend", "error"} : ViolationKillLog(t, c)
  \/ \E t \in TickSlots, c \in {"spend", "error"} : ViolationKillThrows(t, c)
  \/ \E t \in TickSlots : MonitoringChecksEnd(t)
  \/ NoCall /\ TriggerCall

SpecError == InitError /\ [][NextError]_vars

\* ------------------------------------------------- a member that throws
\* u1's agent over both spend triggers; or 10 events, all errors, over the
\* spend_rate and the error_rate trigger; or 50 events of one signature
InitFail ==
  /\ \/ \E events \in SpendLedgers :
          RuleSeed(events, {Trigger(1, "spend_rate", 2, "per_hour", TRUE),
                            Trigger(2, "total_daily_spend", 2, "per_day", TRUE)})
     \/ \E events \in {e \in ErrorLedgers : Len(e) = MinSample /\ e[MinSample].error}
                    \cup LoopLedgers :
          RuleSeed(events, {Trigger(1, "spend_rate", 2, "per_hour", TRUE),
                            Trigger(2, "error_rate", 50, "percentage", TRUE)})
  /\ redisUp = TRUE
  /\ callsLeft = 0

\* the statements of the runs in flight
RunStep(t) ==
  \/ MonitorStep(t)
  \/ checkSpendRates(t)
  \/ checkSpendRateTrigger(t)
  \/ checkErrorRates(t)
  \/ updateSpendRateMonitoring(t)
  \/ \E c \in {"spend", "error"} : ViolationKillUpdate(t, c)
  \/ \E c \in {"spend", "error"} : ViolationKillLog(t, c)
  \/ MonitoringChecksEnd(t)

\* a statement of a run throws
RunThrows(t) ==
  \/ \E c \in OtherChecks : CheckThrows(t, c)
  \/ SpendRateTriggerThrows(t)
  \/ LoopDetectionThrows(t)
  \/ AutoKillThrows(t)
  \/ \E c \in {"spend", "error"} : ViolationKillThrows(t, c)

\* one run of the monitor at a time, any statement of which can throw
NextFail ==
  \/ (\A t \in TickSlots : mon[t].pc = "idle") /\ \E t \in TickSlots : performMonitoringChecks(t)
  \/ \E t \in TickSlots : RunStep(t)
  \/ \E t \in TickSlots : RunThrows(t)

SpecFail == InitFail /\ [][NextFail]_vars

\* setInterval fires while the timer is armed, and a statement that has been
\* sent is answered or throws
SpecFailLive ==
  /\ InitFail
  /\ [][NextFail]_vars
  /\ WF_vars((\A t \in TickSlots : mon[t].pc = "idle")
               /\ \E t \in TickSlots : performMonitoringChecks(t))
  /\ WF_vars(\E t \in TickSlots : RunStep(t))

\* ---------------------------------------- a cache that lost an increment
\* A store in which agent a1 of u1, with limit 4, has two recorded events of
\* cost 1 and the cache counts one of them: Redis threw in incrementAgentSpend
\* after the second INSERT. u2 has no agent.
DriftSeed ==
  /\ agents = [k \in AgentKey |->
       IF k = <<"u1", "a1">> THEN [NewAgentRow EXCEPT !.monthly_cost_limit = 4]
       ELSE NoRow]
  /\ globalStop = GlobalStopOff
  /\ audit = << >>
  /\ ledger = << UsageEvent("u1", <<"u1", "a1">>, 1, 0), UsageEvent("u1", <<"u1", "a1">>, 1, 0) >>
  /\ customers = {<<"u1", "c1">>}
  /\ cache = [a \in AgentIds |-> 1]
  /\ req = [r \in ReqSlots |-> ReqIdle]
  /\ op = [o \in OpSlots |-> OpIdle]
  /\ resp = ReqIdle
  /\ opResp = OpIdle
  /\ now = 0
  /\ mon = [t \in TickSlots |-> MonIdle]
  /\ triggers = {}
  /\ isRunning = TRUE
  /\ monitoring = EmptyBag

InitDrift ==
  /\ DriftSeed
  /\ redisUp = TRUE
  /\ callsLeft = DriftCalls

\* usage requests served one at a time, Redis answering every command, and
\* the cached total taken out by hand between two requests
NextDrift ==
  \/ Quiet /\ \E r \in ReqSlots : ValidRecordArrives(r)
  \/ Quiet /\ \E a \in AgentIds : resetAgentSpend(a)
  \/ \E r \in ReqSlots : BudgetGetSpend(r)
  \/ \E r \in ReqSlots : BudgetDbSum(r)
  \/ \E r \in ReqSlots : BudgetBackfill(r)
  \/ \E r \in ReqSlots : BudgetReGet(r)
  \/ \E r \in ReqSlots : BudgetSuspend(r)
  \/ \E r \in ReqSlots : EnsureCustomerSelect(r)
  \/ \E r \in ReqSlots : EnsureCustomerInsert(r)
  \/ \E r \in ReqSlots : EnsureAgentSelect(r)
  \/ \E r \in ReqSlots : EnsureAgentInsert(r)
  \/ \E r \in ReqSlots : checkAgentBudgetAfterCreation(r)
  \/ \E r \in ReqSlots : IsAgentActiveGlobal(r)
  \/ \E r \in ReqSlots : IsAgentActiveStatus(r)
  \/ \E r \in ReqSlots : InsertUsageEvent(r)
  \/ \E r \in ReqSlots : RecordIncrementSpend(r)
  \/ \E r \in ReqSlots : RecordResponds(r)

SpecDrift == InitDrift /\ [][NextDrift]_vars

\* ------------------------------------------ check-agent against the gate
\* an agent with limit 2 and spend 1: active, suspended by a budget denial, or
\* paused for a time that has passed
InitProbe ==
  /\ \/ Seeded(2, 1, FALSE)
     \/ SuspendedSeed(2, 1)
     \/ PausedSeed
  /\ redisUp = TRUE
  /\ callsLeft = ProbeCalls

\* check-agent, kill-agent and usage requests served one at a time
NextProbe ==
  \/ Quiet /\ \E o \in OpSlots, u \in Tenants, a \in AgentIds : CheckAgent(o, u, a)
  \/ \E o \in OpSlots : CheckAgentStep(o)
  \/ Quiet /\ \E o \in OpSlots, u \in Tenants, a \in AgentIds : KillAgent(o, u, a, "ra")
  \/ \E o \in OpSlots : logKillSwitchEvent(o)
  \/ Quiet /\ \E r \in ReqSlots : ValidRecordArrives(r)
  \/ \E r \in ReqSlots : CachedRecordStep(r)

SpecProbe == InitProbe /\ [][NextProbe]_vars

\* ---------------------------------------------------------------- claims
\* POST /record sends a response in this step
Answered == resp' # resp

\* a kill-switch or budget route sends a response in this step
OpAnswered == opResp' # opResp

EmergencyReasons == {EmergencyReason(x) : x \in Reasons}

\* C1: a request whose is_agent_active call reads the global flag as set is
\* denied by that very step (403 AGENT_KILLED) and writes nothing; every
\* usage event appended and every 201 sent belongs to a request that read the
\* flag as clear.
C1_GlobalStopDenies ==
  [][\A r \in ReqSlots :
       /\ (req[r].pc = "kc_global" /\ globalStop.is_emergency_stopped /\ req'[r] # req[r])
            => /\ Answered
               /\ resp'.code = "AGENT_KILLED"
               /\ resp'.global_stopped = "true"
               /\ UNCHANGED <<ledger, agents, cache>>
       /\ (req[r].pc = "insert" /\ ledger' # ledger) => req[r].global_stopped = "false"
       /\ (Answered /\ resp'.code = "201") => resp'.global_stopped = "false"]_vars

\* a request is denied by the flag while its agent still has status active:
\* the emergency stop has set the flag and not yet run its bulk UPDATE
C1_Witness ==
  /\ resp.code = "AGENT_KILLED"
  /\ resp.global_stopped = "true"
  /\ globalStop.is_emergency_stopped
  /\ agents[Key(resp)].status = "active"

\* C2: no usage event is appended for an agent whose recorded spend of the
\* month has already reached its monthly limit (the request is denied).
C2_SpentOutAgentDenied ==
  [][\A r \in ReqSlots :
       (req[r].pc = "insert" /\ ledger' # ledger
          /\ agents[Key(req[r])].monthly_cost_limit # NULL)
         => LedgerSum(Key(req[r])) < agents[Key(req[r])].monthly_cost_limit]_vars

\* C3: a request answered while its agent has status killed is answered
\* 403 AGENT_KILLED, whatever its cost and budget, and changes no agent row.
C3_KilledDeniedAsKilled ==
  [][(Answered /\ agents[Key(resp')].status = "killed")
       => (resp'.code = "AGENT_KILLED" /\ agents' = agents)]_vars

\* C4: no usage event is appended for an agent whose status is killed.
C4_NoEventWhileKilled ==
  [][\A r \in ReqSlots :
       (req[r].pc = "insert" /\ ledger' # ledger)
         => agents[Key(req[r])].status # "killed"]_vars

\* C5: with limit L, spend S as the budget check read it and cost c, the
\* request is denied with BUDGET_LIMIT_EXCEEDED, its agent killed and nothing
\* appended, exactly when S + c > L; with S + c <= L (equality included) it
\* passes the budget check and the agent's status stays as it was.
C5_BudgetDenialKills ==
  [][/\ (Answered /\ resp'.limit # NULL /\ resp'.currentSpend # NULL)
          => IF resp'.currentSpend + resp'.cost > resp'.limit
             THEN /\ resp'.code = "BUDGET_LIMIT_EXCEEDED"
                  /\ agents'[Key(resp')].status = "killed"
                  /\ ledger' = ledger
             ELSE /\ resp'.code \in {"201", "400_VALIDATION"}
                  /\ agents'[Key(resp')].status = agents[Key(resp')].status
     /\ (Answered /\ resp'.code = "BUDGET_LIMIT_EXCEEDED")
          => /\ resp'.limit # NULL
             /\ resp'.currentSpend # NULL
             /\ resp'.currentSpend + resp'.cost > resp'.limit
     /\ \A r \in ReqSlots :
          (req'[r].pc \in {"insert", "incr"} /\ req'[r].limit # NULL)
            => req'[r].currentSpend + req'[r].cost <= req'[r].limit]_vars

\* C6: a BUDGET_LIMIT_EXCEEDED denial kills the agent, and with no operator
\* call made the requests after it are answered AGENT_KILLED.
C6_KilledAfterBudgetDenial ==
  [][/\ (Answered /\ resp'.code = "BUDGET_LIMIT_EXCEEDED")
          => agents'[Key(resp')].status = "killed"
     /\ \A k \in AgentKey :
          (agents[k].is_suspended /\ opResp = OpIdle /\ Answered /\ Key(resp') = k)
            => resp'.code = "AGENT_KILLED"]_vars

\* C7: a request answered while the global flag is set is answered by the
\* global-stop test, and no budget verdict has touched its agent.
C7_GlobalStopFirst ==
  [][(Answered /\ globalStop.is_emergency_stopped)
       => (resp'.global_stopped = "true" /\ agents' = agents)]_vars

\* C8: the bulk UPDATE of a confirmed emergency stop kills every agent that is
\* active or paused, with the emergency reason; when the call completes the
\* global flag is set with the given reason and every agent is killed with a
\* kill reason.
C8_EmergencyStopKillsAll ==
  [][\A o \in OpSlots :
       /\ (op[o].pc = "es_kill" /\ op'[o].pc = "log")
            => \A k \in AgentKey :
                 agents[k].status \in {"active", "paused"}
                   => /\ agents'[k].status = "killed"
                      /\ agents'[k].kill_reason = EmergencyReason(op[o].reason)
       /\ (op[o].kind = "emergency_stop_all" /\ op[o].pc = "log" /\ op'[o].pc = "idle")
            => /\ opResp'.code = "200"
               /\ globalStop'.is_emergency_stopped
               /\ globalStop'.stop_reason = op[o].reason
               /\ \A k \in AgentKey :
                    agents'[k].present
                      => /\ agents'[k].status = "killed"
                         /\ agents'[k].kill_reason # "NULL"]_vars

\* an emergency stop has completed and killed an agent that was paused
C8_Witness ==
  /\ opResp.kind = "emergency_stop_all"
  /\ opResp.code = "200"
  /\ globalStop.stop_reason = opResp.reason
  /\ \E k \in AgentKey :
       /\ agents[k].status = "killed"
       /\ agents[k].kill_reason = EmergencyReason(opResp.reason)
       /\ agents[k].pause_until # NULL

\* POST /record answers, in this step, a request that arrived after the last
\* kill-switch call, a successful emergency-stop-disable, for an agent that
\* the emergency stop killed and nobody has revived
AnsweredAfterDisable ==
  /\ Answered
  /\ NoCall
  /\ opResp.kind = "emergency_stop_disabled"
  /\ opResp.code = "200"
  /\ resp'.id < opResp.id
  /\ agents[Key(resp')].present
  /\ agents[Key(resp')].status = "killed"
  /\ agents[Key(resp')].kill_reason \in EmergencyReasons

\* C9: every step of emergency-stop-disable leaves the agents table as it is
\* and the flag clear, and a request for an agent that the emergency stop
\* killed, made after the disable, is answered 403 AGENT_KILLED and appends
\* nothing.
C9_KilledStaysKilledAfterDisable ==
  [][/\ \A o \in OpSlots :
          (op'[o] # op[o] /\ "emergency_stop_disabled" \in {op[o].kind, op'[o].kind})
            => (agents' = agents /\ ~globalStop'.is_emergency_stopped)
     /\ AnsweredAfterDisable => (resp'.code = "AGENT_KILLED" /\ ledger' = ledger)]_vars

\* C10: an emergency stop without confirm = true is answered 400 and leaves
\* the global flag, the agents and the audit log as they are; no handler goes
\* on to the UPDATEs without it.
C10_UnconfirmedStopRejected ==
  [][/\ (OpAnswered /\ opResp'.kind = "emergency_stop_all" /\ ~opResp'.confirm)
          => (opResp'.code = "400" /\ UNCHANGED <<globalStop, agents, audit>>)
     /\ \A o \in OpSlots : op'[o].kind = "emergency_stop_all" => op'[o].confirm]_vars

\* an unconfirmed emergency stop was refused after agents had been paused
C10_Witness ==
  /\ opResp.kind = "emergency_stop_all"
  /\ ~opResp.confirm
  /\ opResp.code = "400"
  /\ ~globalStop.is_emergency_stopped
  /\ \E k \in AgentKey : agents[k].status = "paused"

\* POST /record answers, in this step, the first request to arrive after the
\* last kill-switch call, which was a successful revive of the request's agent
AnsweredNextAfterRevive ==
  /\ Answered
  /\ opResp.kind = "revive_agent"
  /\ opResp.code = "200"
  /\ OpKey(opResp) = Key(resp')
  /\ resp'.id < opResp.id
  /\ (resp.pc = "idle" \/ resp.id > opResp.id)

\* C11: after a successful revive the next request for the agent, with the
\* global flag clear and the recorded spend plus its cost within the limit, is
\* answered 201.
C11_RevivedAgentAdmitted ==
  [][(AnsweredNextAfterRevive
        /\ ~globalStop.is_emergency_stopped
        /\ (agents[Key(resp')].monthly_cost_limit = NULL
              \/ LedgerSum(Key(resp')) + (IF resp'.code = "201" THEN 0 ELSE resp'.cost)
                   <= agents[Key(resp')].monthly_cost_limit))
       => resp'.code = "201"]_vars

\* C12: the first request answered for an agent paused with pause_until
\* elapsed leaves that agent active with pause_until cleared, and is answered
\* 201 when its cost fits the limit.
C12_ElapsedPauseHealsAtNextCheck ==
  [][Answered
       => /\ ~(/\ agents'[Key(resp')].status = "paused"
               /\ agents'[Key(resp')].pause_until <= now')
          /\ (/\ agents[Key(resp')].status = "paused"
              /\ agents[Key(resp')].pause_until <= now
              /\ (agents[Key(resp')].monthly_cost_limit = NULL
                    \/ LedgerSum(Key(resp')) + resp'.cost
                         <= agents[Key(resp')].monthly_cost_limit))
               => resp'.code = "201"]_vars

\* C13: a request answered while its agent is paused with pause_until in the
\* future is answered AGENT_PAUSED, appends no usage event and leaves the
\* agent row as it was.
C13_PausedDeniedAsPaused ==
  [][(/\ Answered
      /\ agents[Key(resp')].status = "paused"
      /\ agents[Key(resp')].pause_until > now)
       => /\ resp'.code = "AGENT_PAUSED"
          /\ ledger' = ledger
          /\ agents'[Key(resp')] = agents[Key(resp')]]_vars

\* this step is the arrival of a POST /kill-agent call naming agent k
KillCallOn(k) ==
  /\ callsLeft' = callsLeft - 1
  /\ \/ /\ OpAnswered
        /\ opResp'.kind = "kill_agent"
        /\ opResp'.id = callsLeft
        /\ OpKey(opResp') = k
     \/ \E o \in OpSlots :
          /\ op'[o].kind = "kill_agent"
          /\ op'[o].id = callsLeft
          /\ op'[o].pc = "log"
          /\ OpKey(op'[o]) = k

\* this step is the UPDATE of triggerAutoKill for a row naming agent k
AutoKillOn(k) ==
  \E t \in TickSlots :
    \/ mon[t].pc = "next" /\ mon'[t].pc = "log" /\ mon'[t].row.k = k
    \/ \E c \in {"spend", "error"} :
         mon[t][c].pc = "next" /\ mon'[t][c].pc = "log" /\ mon'[t][c].row.k = k

\* C14: a Kill Action on an agent that is already killed, a kill-agent call or
\* the monitor's triggerAutoKill, changes no agent row: status stays killed
\* with the kill_reason and killed_at of the first kill; the kill-agent call
\* writes no audit record either. And no step at all rewrites the kill_reason
\* or killed_at of an agent that is killed before and after it.
C14_SecondKillChangesNothing ==
  [][\A k \in AgentKey :
       /\ (agents[k].status = "killed" /\ (KillCallOn(k) \/ AutoKillOn(k)))
            => agents' = agents
       /\ (agents[k].status = "killed" /\ KillCallOn(k))
            => /\ audit' = audit
               /\ \A o \in OpSlots : op'[o].pc = "idle"
       /\ (agents[k].status = "killed" /\ agents'[k].status = "killed")
            => /\ agents'[k].kill_reason = agents[k].kill_reason
               /\ agents'[k].killed_at = agents[k].killed_at]_vars

\* the monitor's triggerAutoKill has run its UPDATE for an agent that a
\* kill-agent call had killed earlier: the agent still carries the call's
\* reason and time
C14_Witness ==
  \E t \in TickSlots :
    /\ mon[t].pc = "log"
    /\ agents[mon[t].row.k].status = "killed"
    /\ agents[mon[t].row.k].kill_reason = "ra"
    /\ agents[mon[t].row.k].killed_at < now
    /\ \E i \in 1..Len(audit) : audit[i].event_type = "kill_agent" /\ audit[i].triggered_by = "manual"

\* C15: a kill-agent call that finds its agent already killed is answered
\* with success.
C15_KillOfKilledSucceeds ==
  [][\A k \in AgentKey :
       (KillCallOn(k) /\ agents[k].status = "killed")
         => (OpAnswered /\ opResp'.code = "200")]_vars

\* the agents of tenant u that have recorded usage for customer c
AgentsOfCustomer(u, c) ==
  {k \in AgentKey : \E i \in 1..Len(ledger) :
     ledger[i].user = u /\ ledger[i].customer = c /\ ledger[i].agent = k}

\* C16: a kill-customer call of tenant u for customer c kills the non-killed
\* agents of c and leaves as they were the tenant's agents whose usage is all
\* for other customers and every agent of another tenant.
C16_KillCustomerKillsOnlyItsAgents ==
  [][\A o \in OpSlots :
       (op[o].pc = "kill_update" /\ op'[o].kind = "kill_customer" /\ op'[o].pc = "log")
         => \A k \in AgentKey :
              /\ (k \in AgentsOfCustomer(op'[o].user, op'[o].target)
                    /\ agents[k].status # "killed")
                   => agents'[k].status = "killed"
              /\ (\/ k[1] # op'[o].user
                  \/ /\ k \notin AgentsOfCustomer(op'[o].user, op'[o].target)
                     /\ \E c \in CustomerNames : k \in AgentsOfCustomer(op'[o].user, c))
                   => agents'[k] = agents[k]]_vars

\* C17: while Redis is unreachable, a step of the budget check that ends the
\* check for a request whose ledger total plus cost exceeds the limit ends it
\* with the denial; the request is never let through on a zero or missing
\* cached total.
C17_LedgerDecidesWithoutCache ==
  [][\A r \in ReqSlots :
       (/\ req[r].pc \in {"mw_get", "mw_dbsum", "mw_reget"}
        /\ req'[r] # req[r]
        /\ ~redisUp
        /\ LedgerSum(Key(req[r])) + req[r].cost > req[r].limit)
         => req'[r].pc \in {"mw_dbsum", "mw_backfill", "mw_reget", "mw_suspend"}]_vars

\* C18: a request that found no row for its agent in the budget middleware
\* and is answered while the global flag is clear is answered 201: the agent
\* row exists with status active and the request's event is the last of the
\* ledger.
C18_UnknownAgentCreatedAndAdmitted ==
  [][(Answered /\ resp'.deferred /\ ~globalStop.is_emergency_stopped)
       => /\ resp'.code = "201"
          /\ agents'[Key(resp')].present
          /\ agents'[Key(resp')].status = "active"
          /\ ledger # << >>
          /\ ledger[Len(ledger)].agent = Key(resp')
          /\ ledger[Len(ledger)].cost = resp'.cost]_vars

\* the first request of tenant u2 for agent a1, which had no row, was recorded
C18_Witness ==
  /\ resp.deferred
  /\ resp.code = "201"
  /\ resp.user = "u2"
  /\ agents[Key(resp)].present
  /\ agents[Key(resp)].status = "active"
  /\ \E i \in 1..Len(ledger) : ledger[i].agent = Key(resp)

\* the number of events of agent k in the ledger that carry model m and
\* request hash h and are at most ten minutes old
RECURSIVE SameSignature(_, _, _, _, _)
SameSignature(events, k, e, m, h) ==
  IF events = << >> THEN 0
  ELSE (IF /\ Head(events).agent = k
           /\ Head(events).event_name = e
           /\ Head(events).model = m
           /\ Head(events).request_hash = h
           /\ now - Head(events).created_at <= 10
        THEN 1 ELSE 0) + SameSignature(Tail(events), k, e, m, h)

\* agent k is active and has 50 or more events of one signature in the last
\* ten minutes
InLoop(k) ==
  /\ agents[k].status = "active"
  /\ \E e \in {"e1", "e2"}, m \in {"m1", "m2"} : SameSignature(ledger, k, e, m, "h1") >= 50

\* C19: an active agent with 50 or more events of one signature in the last
\* ten minutes is killed by the monitor's next check (unless the events have
\* left the window by then, or stop() has cleared the timer so that no check
\* comes), with the loop reason and, in the next statement of the run, an
\* audit record; and no agent is killed by this rule unless it has 50 such
\* events: 49 do not do.
C19_LoopRuleKillsAtFifty ==
  /\ \A k \in AgentKey : InLoop(k) ~> (~InLoop(k) \/ (~isRunning /\ NoRun))
  /\ [][\A k \in AgentKey :
          (agents[k].status = "active" /\ agents'[k].status = "killed")
            => /\ InLoop(k)
               /\ \E n \in 50..(50 + LoopCalls) : agents'[k].kill_reason = AutoKillReason(n)
               /\ agents'[k].killed_at = now
               /\ \E t \in TickSlots : mon'[t].pc = "log" /\ mon'[t].row.k = k]_vars
  /\ [][\A t \in TickSlots :
          (mon[t].pc = "log" /\ mon'[t].pc # "log")
            => /\ Len(audit') = Len(audit) + 1
               /\ audit'[Len(audit')].triggered_by = "auto_infinite_loop"
               /\ audit'[Len(audit')].target_id = mon[t].row.k[2]]_vars

\* an agent that had 49 events of one signature sent the fiftieth and was
\* killed by the loop rule at exactly 50
C19_Witness ==
  /\ resp.code = "201"
  /\ Key(resp) = <<"u1", "a1">>
  /\ SameSignature(ledger, <<"u1", "a1">>, "e1", "m1", "h1") = 50
  /\ agents[<<"u1", "a1">>].status = "killed"
  /\ agents[<<"u1", "a1">>].kill_reason = AutoKillReason(50)
  /\ audit # << >>
  /\ audit[Len(audit)].triggered_by = "auto_infinite_loop"

\* C20: a bulk request whose body is well formed (1 to 100 valid events and no
\* other key), sent while its tenant's agent a1 is active, is answered 201 and
\* appends each of its events to the ledger.
C20_BulkRecorded ==
  [][(/\ Answered
      /\ resp'.route = "record-bulk"
      /\ resp'.agent_id = "NULL"
      /\ resp'.events \in 1..100
      /\ agents[<<resp'.user, "a1">>].status = "active"
      /\ ~globalStop.is_emergency_stopped)
       => /\ resp'.code = "201"
          /\ Len(ledger') = Len(ledger) + resp'.events]_vars

\* C21: an agent whose status is killed leaves that status only by the UPDATE
\* of a revive call that names it.
C21_KilledUntilRevived ==
  [][\A k \in AgentKey :
       (agents[k].status = "killed" /\ agents'[k].status # "killed")
         => \E o \in OpSlots :
              /\ op[o].pc = "idle"
              /\ op'[o].kind = "revive_agent"
              /\ op'[o].pc = "log"
              /\ OpKey(op'[o]) = k]_vars

\* C22: every request for an agent with a limit that is answered 201 read a
\* total with total + cost within the limit; yet two such requests running
\* together each read the same total, both are recorded, and the recorded
\* spend ends above the limit (the witness).
C22_EachAllowedRequestReadRoom ==
  [][(Answered /\ resp'.code = "201" /\ resp'.limit # NULL)
       => resp'.currentSpend + resp'.cost <= resp'.limit]_vars

\* two requests of cost 1 for an agent with limit 2 and recorded spend 1 have
\* both been recorded, each having read the cached total 1: the ledger holds 3
C22_Witness ==
  /\ agents[<<"u1", "a1">>].monthly_cost_limit = 2
  /\ Len(ledger) = 3
  /\ \A i \in 1..3 : ledger[i].agent = <<"u1", "a1">> /\ ledger[i].cost = 1
  /\ LedgerSum(<<"u1", "a1">>) > agents[<<"u1", "a1">>].monthly_cost_limit
  /\ resp.code = "201"
  /\ resp.currentSpend = 1
  /\ NoRequest
  /\ ~agents[<<"u1", "a1">>].is_suspended

\* the recorded cost of every tenant's agent with external id a
RecordedFor(a) ==
  LET keys == {k \in AgentKey : k[2] = a}
      RECURSIVE Total(_)
      Total(ks) == IF ks = {} THEN 0
                   ELSE LET k == CHOOSE x \in ks : TRUE
                        IN LedgerSum(k) + Total(ks \ {k})
  IN Total(keys)

\* C23: the cached total of an agent never exceeds the cost recorded for it in
\* the ledger.
C23_CacheNeverAboveLedger ==
  \A a \in AgentIds : cache[a] # NULL => cache[a] <= RecordedFor(a)

\* C24: when an emergency stop answers 200 its effects are all in place: the
\* global flag is set, every agent is killed and its audit record is the last
\* of the log; no other call has run in between and undone a part.
C24_EmergencyStopWhole ==
  [][(OpAnswered /\ opResp'.kind = "emergency_stop_all" /\ opResp'.code = "200")
       => /\ globalStop'.is_emergency_stopped
          /\ \A k \in AgentKey : agents'[k].present => agents'[k].status = "killed"
          /\ audit'[Len(audit')].event_type = "emergency_stop_all"]_vars

\* C25: at most one run of the monitor is in flight at any time.
C25_TicksNeverOverlap ==
  Cardinality({t \in TickSlots : mon[t].pc # "idle"}) <= 1

\* a handler has changed an agent and is about to write its audit record
AuditPending ==
  \/ \E o \in OpSlots : op'[o].pc = "log"
  \/ \E t \in TickSlots : mon'[t].pc = "log"

\* the step is the automatic return of a paused agent whose pause has run out
LazyUnpause(k) ==
  /\ agents[k].status = "paused"
  /\ agents'[k].status = "active"
  /\ \E r \in ReqSlots : req[r].pc = "kc_unpause" /\ Key(req[r]) = k

\* the step is the budget gate suspending the agent of the request it denies
GateSuspends(k) ==
  /\ ~agents[k].is_suspended
  /\ agents'[k].is_suspended
  /\ \E r \in ReqSlots : req[r].pc \in {"mw_suspend", "post_suspend"} /\ Key(req[r]) = k

\* C26: every step that changes the status of an agent, other than the
\* automatic return from an elapsed pause, and every step in which the budget
\* gate suspends an agent, writes an audit record or belongs to a handler that
\* goes on to write one.
C26_EveryTransitionAudited ==
  [][\A k \in AgentKey :
       ( /\ agents[k].present
         /\ \/ agents'[k].status # agents[k].status
            \/ GateSuspends(k)
         /\ ~LazyUnpause(k) )
       => (audit' # audit \/ AuditPending)]_vars

\* the audit records of one kind written about agent k
RecordsOf(kind, k) ==
  {i \in 1..Len(audit) : /\ audit[i].event_type = kind
                         /\ audit[i].target_type = "agent"
                         /\ audit[i].target_id = k[2]
                         /\ audit[i].user_id = k[1]}

\* a revive of agent k has updated the row and has not written its record yet
RevivePending(k) ==
  {o \in OpSlots : /\ op[o].pc = "log"
                   /\ op[o].kind = "revive_agent"
                   /\ op[o].user = k[1]
                   /\ op[o].target = k[2]}

\* C27: kill records are written for effective kills only. An agent can be
\* killed again only after it has been revived, so the kill records of an agent
\* are never more than one above its revivals (those whose record is still to
\* be written included).
C27_OneKillRecordPerKill ==
  \A k \in AgentKey :
    Cardinality(RecordsOf("kill_agent", k))
      <= 1 + Cardinality(RecordsOf("revive_agent", k)) + Cardinality(RevivePending(k))

\* C28: in every state an agent whose status is paused has pause_until set
\* and an agent whose status is killed has kill_reason set, whichever
\* statement wrote the status.
C28_StatusFieldsSet ==
  \A k \in AgentKey :
    agents[k].present =>
      /\ agents[k].status = "paused" => agents[k].pause_until # NULL
      /\ agents[k].status = "killed" => agents[k].kill_reason # "NULL"

\* one agent is killed and another is paused
C28_Witness ==
  \E k, j \in AgentKey :
    /\ agents[k].present /\ agents[k].status = "killed" /\ agents[k].kill_reason # "NULL"
    /\ agents[j].present /\ agents[j].status = "paused" /\ agents[j].pause_until # NULL

\* C29: no step removes or rewrites an audit record: the log before the step
\* is a prefix of the log after it, and the records of the log are in
\* non-decreasing order of created_at.
C29_AuditAppendOnly ==
  [][/\ Len(audit') >= Len(audit)
     /\ SubSeq(audit', 1, Len(audit)) = audit
     /\ \A i \in 1..(Len(audit') - 1) : audit'[i].created_at <= audit'[i + 1].created_at]_vars

\* the monitor and an operator route have both written a record, at different
\* times
C29_Witness ==
  /\ Len(audit) >= 2
  /\ audit[1].created_at < audit[Len(audit)].created_at
  /\ \E i \in 1..Len(audit) : audit[i].triggered_by = "auto_infinite_loop"
  /\ \E i \in 1..Len(audit) : audit[i].triggered_by = "manual"

\* C30: while a request whose body fails validation is being handled, no agent
\* row, ledger row, cached spend or audit record changes.
C30_InvalidRequestChangesNothing ==
  [][(\E r \in ReqSlots : req[r].pc # "idle" /\ ~req[r].valid)
       => /\ agents' = agents
          /\ ledger' = ledger
          /\ cache' = cache
          /\ audit' = audit]_vars

\* C31: while the global stop is set, no step of a usage request changes the
\* status, the suspension, the kill reason or the pause expiry of an agent.
C31_GlobalStopReadOnly ==
  [][(globalStop.is_emergency_stopped /\ \E r \in ReqSlots : req[r].pc # "idle")
       => \A k \in AgentKey :
            agents[k].present =>
              /\ agents'[k].status = agents[k].status
              /\ agents'[k].is_suspended = agents[k].is_suspended
              /\ agents'[k].kill_reason = agents[k].kill_reason
              /\ agents'[k].pause_until = agents[k].pause_until]_vars

\* what agent k has cost its tenant since the start of the trigger's window,
\* whatever the customer
AgentWindowCost(trig, k) ==
  SumRows({i \in 1..Len(ledger) : /\ ledger[i].user = trig.user
                                  /\ ledger[i].agent = k
                                  /\ ledger[i].created_at >= WindowStart(trig)})

\* what the step throws in run t
Thrown(t) == mon'[t].failed \ mon[t].failed

\* the trigger whose violation query run t is answered in this step
Evaluated(t) ==
  IF mon[t].spend.pc = "violations" /\ "trigger" \notin Thrown(t)
  THEN mon[t].spend.trigs \ mon'[t].spend.trigs
  ELSE {}

\* C32: when the violation query of a spend trigger is answered, every active
\* agent of the trigger's tenant whose cost over the trigger's window is above
\* the threshold is among the rows that the run goes on to kill.
C32_OverThresholdKilled ==
  [][\A t \in TickSlots : \A g \in Evaluated(t), k \in AgentKey :
       ( /\ agents[k].present
         /\ agents[k].status = "active"
         /\ k[1] = g.user
         /\ AgentWindowCost(g, k) > g.threshold_value )
       => \E row \in mon'[t].spend.rows : row.k = k]_vars

\* the thresholds a trigger of the model can have
TriggerThresholds == {1, 2, 50}

\* the step kills agent k with the reason of the given rule
AutoKilledBy(ttype, k) ==
  /\ agents[k].present
  /\ agents[k].status = "active"
  /\ agents'[k].status = "killed"
  /\ \E th \in TriggerThresholds : agents'[k].kill_reason = AutoKillReasonOf(ttype, th)

\* C33: every row that errorRateQuery returns names an agent with at least 10
\* events in the last 15 minutes and the active error_rate trigger of the
\* agent's tenant whose id the row carries and whose threshold the share of
\* events with an error, in percent, exceeds; a step that kills an agent for
\* its error rate works on such a row; and the agent it kills has at least 10
\* events in the window, with a share of errors above the threshold that the
\* kill_reason prints.
C33_ErrorRuleNeedsSample ==
  /\ [][\A t \in TickSlots :
          mon[t].error.pc = "query"
            => \A row \in mon'[t].error.rows :
                 /\ Cardinality(StatRows(row.k)) >= MinSample
                 /\ \E g \in triggers :
                      /\ row.group = <<g.id>>
                      /\ g.user = row.k[1]
                      /\ g.trigger_type = "error_rate"
                      /\ g.is_active
                      /\ row.threshold = Decimal(g.threshold_value)
                      /\ ErrorCount(row.k) * 100
                           > g.threshold_value * Cardinality(StatRows(row.k))]_vars
  /\ [][\A k \in AgentKey :
          AutoKilledBy("error_rate", k)
            => /\ \E t \in TickSlots :
                    /\ mon[t].error.pc = "next"
                    /\ mon'[t].error.row \in mon[t].error.rows
                    /\ mon'[t].error.row.k = k
               /\ Cardinality(StatRows(k)) >= MinSample
               /\ \E th \in TriggerThresholds :
                    /\ agents'[k].kill_reason = AutoKillReasonOf("error_rate", th)
                    /\ ErrorCount(k) * 100 > th * Cardinality(StatRows(k))]_vars

\* an agent with exactly 10 events, all of them errors, was killed by the rule
C33_Witness ==
  \E k \in AgentKey :
    /\ agents[k].status = "killed"
    /\ agents[k].kill_reason = AutoKillReasonOf("error_rate", 50)
    /\ Cardinality(StatRows(k)) = MinSample
    /\ \E i \in 1..Len(audit) : audit[i].triggered_by = "auto_error_rate"

\* the members of Promise.all
Members == {"loop"} \cup OtherChecks

\* the member whose catch block wrote the label
Owner(label) ==
  IF label \in {"loop", "loop_kill"} THEN "loop"
  ELSE IF label \in {"spend", "trigger", "spend_kill"} THEN "spend"
  ELSE IF label \in {"error", "error_kill"} THEN "error"
  ELSE "rates"

\* where member m of a run stands
MemberState(run, m) == IF m = "loop" THEN <<run.pc, run.rows, run.row>> ELSE run[m]

\* the active agents that the rule of member m is to kill
Victims(m) ==
  IF m = "loop" THEN {row.k : row \in RequestPatterns}
  ELSE IF m = "error" THEN {v[1] : v \in HighErrorAgents}
  ELSE IF m = "spend"
  THEN {k \in AgentKey : \E g \in ActiveSpendTriggers, c \in CustomerNames :
                           <<k, c>> \in SpendViolations(g, agents)}
  ELSE {}

\* C34: a statement of a run that throws changes nothing but the member of
\* Promise.all it belongs to: the timer stays armed, no table changes, the
\* other members of the run stay where they were and still due; a trigger
\* whose query throws leaves the other triggers of the check to be evaluated
\* and a kill that throws leaves the other rows of its check to be handled.
\* Every run ends, so that the timer starts the next one, again and again;
\* and once a member of a run has thrown, an agent that another member's rule
\* is to kill is killed, unless that member throws as well.
C34_FailureIsolated ==
  /\ [][\A t \in TickSlots :
          /\ Thrown(t) # {}
               => /\ isRunning' = isRunning
                  /\ UNCHANGED <<agents, audit, ledger, triggers, monitoring>>
                  /\ \A s \in TickSlots \ {t} : mon'[s] = mon[s]
                  /\ \A m \in Members :
                       (\A label \in Thrown(t) : Owner(label) # m)
                         => /\ MemberState(mon'[t], m) = MemberState(mon[t], m)
                            /\ (m \in mon'[t].due) = (m \in mon[t].due)
          /\ \A c \in {"spend", "error"} :
               (c \o "_kill") \in Thrown(t)
                 => /\ mon'[t][c].rows \subseteq mon[t][c].rows
                    /\ mon'[t][c].rows # {} => mon'[t][c].pc = "next"
          /\ "trigger" \in Thrown(t)
               => \E g \in mon[t].spend.trigs :
                    /\ mon'[t].spend.trigs = mon[t].spend.trigs \ {g}
                    /\ mon'[t].spend.trigs # {} => mon'[t].spend.pc = "violations"
          /\ "loop_kill" \in Thrown(t)
               => /\ mon'[t].rows \subseteq mon[t].rows
                  /\ mon'[t].pc = IF mon'[t].rows = {} THEN "wait" ELSE "next"]_vars
  /\ \A t \in TickSlots : (mon[t].pc # "idle") ~> (mon[t].pc = "idle")
  /\ []<>(\E t \in TickSlots : mon[t].pc = "query")
  /\ \A t \in TickSlots, m \in {"loop", "spend", "error"}, k \in AgentKey :
       (k \in Victims(m) /\ \E label \in mon[t].failed : Owner(label) # m)
         ~> (agents[k].status # "active" \/ \E label \in mon[t].failed : Owner(label) = m)

\* the spend check of a run threw, and the error-rate check of the same run
\* has killed an agent since
C34_Witness ==
  \E t \in TickSlots :
    /\ "spend" \in mon[t].failed
    /\ "error" \notin mon[t].due
    /\ "error" \notin mon[t].failed
    /\ audit # << >>
    /\ audit[Len(audit)].triggered_by = "auto_error_rate"

\* this step is the UPDATE of a POST /pause-agent call naming agent k
PauseCallOn(k) ==
  \E o \in OpSlots :
    /\ op[o].pc = "pause_update"
    /\ op'[o].pc # "pause_update"
    /\ OpKey(op[o]) = k

\* C35: a pause-agent call whose UPDATE finds its agent killed or already
\* paused changes no agent row, writes no audit record and leaves none to be
\* written.
C35_PauseOnlyActive ==
  [][\A k \in AgentKey :
       (PauseCallOn(k) /\ agents[k].status \in {"killed", "paused"})
         => /\ agents' = agents
            /\ audit' = audit
            /\ \A o \in OpSlots : op'[o].pc = "idle"]_vars

\* a killed agent was named by a pause call and still carries the reason of
\* its kill and no pause expiry
C35_Witness ==
  /\ opResp.kind = "pause_agent"
  /\ opResp.code = "404"
  /\ agents[OpKey(opResp)].status = "killed"
  /\ agents[OpKey(opResp)].kill_reason # opResp.reason
  /\ agents[OpKey(opResp)].pause_until = NULL
  /\ \A i \in 1..Len(audit) : audit[i].event_type # "pause_agent"

\* the positions of enforceAgentBudget at which currentSpend is being worked out
SpendPcs == {"mw_get", "mw_dbsum", "mw_backfill", "mw_reget"}

\* C36: the cache lost an increment before the first request of the
\* behaviour; the budget check of the last request of the behaviour, at the
\* latest, settles on a total that is at least the sum of the agent's ledger.
C36_DriftRecovered ==
  [][\A r \in ReqSlots :
       (/\ req[r].pc \in SpendPcs
        /\ req'[r].pc \notin SpendPcs
        /\ callsLeft = 0)
         => req'[r].currentSpend >= LedgerSum(Key(req[r]))]_vars

\* C37: a step of a usage request never changes the cached total of an
\* external agent id under which another tenant has an agent: the total read
\* for that tenant's agent is made of its own usage only.
C37_CacheOfOwnTenant ==
  [][\A r \in ReqSlots, a \in AgentIds :
       (req[r].pc # "idle" /\ cache'[a] # cache[a])
         => \A v \in Tenants \ {req[r].user} : ~agents[<<v, a>>].present]_vars

\* C38: a request for an agent that arrives next after a check-agent call on
\* that agent, and whose cost fits the agent's budget, is recorded exactly
\* when the call reported is_active = true.
C38_CheckAgentAgreesWithGate ==
  [][(/\ Answered
      /\ opResp.kind = "check_agent"
      /\ opResp.code = "200"
      /\ resp'.id = opResp.id - 1
      /\ Key(resp') = OpKey(opResp)
      /\ (agents[Key(resp')].monthly_cost_limit = NULL
            \/ LedgerSum(Key(resp')) + (IF resp'.code = "201" THEN 0 ELSE resp'.cost)
                 <= agents[Key(resp')].monthly_cost_limit))
       => (resp'.code = "201" <=> opResp.is_active)]_vars

\* the reasons the monitor writes when it kills
AutoKillReasons ==
  {AutoKillReason(LoopThreshold)}
  \cup {AutoKillReasonOf(g.trigger_type, g.threshold_value) : g \in triggers}

\* C39: a step in which the monitor kills an agent is taken while the
\* agent's tenant has an active trigger; the agent of a tenant whose triggers
\* are all inactive is not killed by the monitor.
C39_KillNeedsActiveTrigger ==
  [][\A k \in AgentKey :
       (/\ agents[k].status = "active"
        /\ agents'[k].status = "killed"
        /\ agents'[k].kill_reason \in AutoKillReasons)
         => \E trig \in triggers : trig.user = k[1] /\ trig.is_active]_vars

\* C40: no request for an agent is answered 500 by the insert of the agent's
\* record, whatever other request for the same agent runs beside it.
C40_CreationRaceHarmless ==
  [][\A r \in ReqSlots :
       (req[r].pc = "ensure_insert" /\ req'[r].pc = "idle" /\ resp'.id = req[r].id)
         => resp'.code # "500"]_vars
====
